---- MODULE Spec2Model ----
(***************************************************************************)
(* Crystal-structure geometry of materials-explorer: the processedStructure *)
(* memo of ImprovedCrystalStructure3D, the expandedSites / framing memos of *)
(* the CrystalStructure3D Scene, and the element table with its lookups.    *)
(*                                                                          *)
(* JavaScript numbers are modelled as fixed-point integers, Scale units to  *)
(* one (1 Angstrom = Scale), together with the three non-finite IEEE values *)
(* NaN, +Infinity and -Infinity, whose arithmetic follows IEEE 754.         *)
(***************************************************************************)
EXTENDS Integers, Sequences, FiniteSets, TLC

\* ---------------------------------------------------------------------------
\* Numbers
\* ---------------------------------------------------------------------------

\* fixed-point unit: the integer n stands for the number n / Scale
Scale == 10^3

\* the non-finite values of a JavaScript number
NaN == 2^30
PInf == 2^30 + 1
NInf == 2^30 + 2

IsFinite(x) == x < NaN

Neg(x) ==
  IF x = NaN THEN NaN
  ELSE IF x = PInf THEN NInf
  ELSE IF x = NInf THEN PInf
  ELSE 0 - x

\* sign of a non-NaN value: -1, 0 or 1
Sgn(x) ==
  IF x = PInf THEN 1
  ELSE IF x = NInf THEN 0 - 1
  ELSE IF x > 0 THEN 1
  ELSE IF x < 0 THEN 0 - 1
  ELSE 0

Signed(s, v) == IF s < 0 THEN Neg(v) ELSE v

\* integer division rounding toward zero (d > 0)
TruncDiv(n, d) == IF n >= 0 THEN n \div d ELSE 0 - ((0 - n) \div d)

\* x + y
Add(x, y) ==
  IF x = NaN \/ y = NaN THEN NaN
  ELSE IF ~IsFinite(x) /\ ~IsFinite(y) THEN (IF x = y THEN x ELSE NaN)
  ELSE IF ~IsFinite(x) THEN x
  ELSE IF ~IsFinite(y) THEN y
  ELSE x + y

\* x - y
Sub(x, y) == Add(x, Neg(y))

\* x * y
Mul(x, y) ==
  IF x = NaN \/ y = NaN THEN NaN
  ELSE IF ~IsFinite(x) \/ ~IsFinite(y)
       THEN (IF Sgn(x) * Sgn(y) = 0 THEN NaN ELSE Signed(Sgn(x) * Sgn(y), PInf))
  ELSE TruncDiv(x * y, Scale)

\* x / y
Div(x, y) ==
  IF x = NaN \/ y = NaN THEN NaN
  ELSE IF ~IsFinite(x) /\ ~IsFinite(y) THEN NaN
  ELSE IF ~IsFinite(x) THEN Signed(Sgn(x) * (IF y < 0 THEN 0 - 1 ELSE 1), PInf)
  ELSE IF ~IsFinite(y) THEN 0
  ELSE IF y = 0 THEN (IF x = 0 THEN NaN ELSE Signed(Sgn(x), PInf))
  ELSE Signed(Sgn(x) * Sgn(y), TruncDiv((IF x < 0 THEN 0 - x ELSE x) * Scale, IF y < 0 THEN 0 - y ELSE y))

\* x < y ; every comparison with NaN is false
Lt(x, y) ==
  IF x = NaN \/ y = NaN THEN FALSE
  ELSE IF x = y THEN FALSE
  ELSE IF x = NInf \/ y = PInf THEN TRUE
  ELSE IF x = PInf \/ y = NInf THEN FALSE
  ELSE x < y

Gt(x, y) == Lt(y, x)

\* x <= y
Le(x, y) == IF x = NaN \/ y = NaN THEN FALSE ELSE x = y \/ Lt(x, y)

Ge(x, y) == Le(y, x)

\* Math.max(x, y) and Math.min(x, y): NaN if either argument is NaN
MathMax(x, y) == IF x = NaN \/ y = NaN THEN NaN ELSE IF Lt(x, y) THEN y ELSE x

MathMin(x, y) == IF x = NaN \/ y = NaN THEN NaN ELSE IF Lt(y, x) THEN y ELSE x

RECURSIVE ISqrtIn(_, _, _)
\* largest r in lo..hi-1 with r * r <= n, given lo * lo <= n < hi * hi
ISqrtIn(n, lo, hi) ==
  IF hi - lo <= 1 THEN lo
  ELSE LET mid == (lo + hi) \div 2
       IN IF mid * mid <= n THEN ISqrtIn(n, mid, hi) ELSE ISqrtIn(n, lo, mid)

\* Math.sqrt(x): NaN for a negative argument
MathSqrt(x) ==
  IF x = NaN \/ x = NInf THEN NaN
  ELSE IF x = PInf THEN PInf
  ELSE IF x < 0 THEN NaN
  ELSE ISqrtIn(x * Scale, 0, 2^15)

\* the angles (degrees) the inputs use, with Math.cos and Math.sin of the
\* angle converted to radians, at fixed-point resolution (Math.sin(0) is
\* exactly 0; Math.cos of 90 degrees and Math.sin of 180 degrees are of the
\* order of 1e-16 in IEEE arithmetic, 0 at this resolution)
Angles == {0, 30, 60, 90, 120, 180}

MathCosDeg(deg) ==
  CASE deg = 0 -> 1000 [] deg = 30 -> 866 [] deg = 60 -> 500
    [] deg = 90 -> 0 [] deg = 120 -> 0 - 500 [] deg = 180 -> 0 - 1000

MathSinDeg(deg) ==
  CASE deg = 0 -> 0 [] deg = 30 -> 500 [] deg = 60 -> 866
    [] deg = 90 -> 1000 [] deg = 120 -> 866 [] deg = 180 -> 0

\* ---------------------------------------------------------------------------
\* Element table
\* ---------------------------------------------------------------------------

\* the object literal the module initialises ATOMIC_DATA with
ATOMIC_DATA ==
  "H"  :> [color |-> "#FFFFFF", radius |-> 310, name |-> "Hydrogen"] @@
  "He" :> [color |-> "#D9FFFF", radius |-> 280, name |-> "Helium"] @@
  "Li" :> [color |-> "#CC80FF", radius |-> 1280, name |-> "Lithium"] @@
  "Be" :> [color |-> "#C2FF00", radius |-> 960, name |-> "Beryllium"] @@
  "B"  :> [color |-> "#FFB5B5", radius |-> 840, name |-> "Boron"] @@
  "C"  :> [color |-> "#909090", radius |-> 760, name |-> "Carbon"] @@
  "N"  :> [color |-> "#3050F8", radius |-> 710, name |-> "Nitrogen"] @@
  "O"  :> [color |-> "#FF0D0D", radius |-> 660, name |-> "Oxygen"] @@
  "F"  :> [color |-> "#90E050", radius |-> 570, name |-> "Fluorine"] @@
  "Ne" :> [color |-> "#B3E3F5", radius |-> 580, name |-> "Neon"] @@
  "Na" :> [color |-> "#AB5CF2", radius |-> 1660, name |-> "Sodium"] @@
  "Mg" :> [color |-> "#8AFF00", radius |-> 1410, name |-> "Magnesium"] @@
  "Al" :> [color |-> "#BFA6A6", radius |-> 1210, name |-> "Aluminum"] @@
  "Si" :> [color |-> "#F0C8A0", radius |-> 1110, name |-> "Silicon"] @@
  "P"  :> [color |-> "#FF8000", radius |-> 1070, name |-> "Phosphorus"] @@
  "S"  :> [color |-> "#FFFF30", radius |-> 1050, name |-> "Sulfur"] @@
  "Cl" :> [color |-> "#1FF01F", radius |-> 1020, name |-> "Chlorine"] @@
  "Ar" :> [color |-> "#80D1E3", radius |-> 1060, name |-> "Argon"] @@
  "K"  :> [color |-> "#8F40D4", radius |-> 2030, name |-> "Potassium"] @@
  "Ca" :> [color |-> "#3DFF00", radius |-> 1760, name |-> "Calcium"] @@
  "Sc" :> [color |-> "#E6E6E6", radius |-> 1700, name |-> "Scandium"] @@
  "Ti" :> [color |-> "#BFC2C7", radius |-> 1600, name |-> "Titanium"] @@
  "V"  :> [color |-> "#A6A6AB", radius |-> 1530, name |-> "Vanadium"] @@
  "Cr" :> [color |-> "#8A99C7", radius |-> 1390, name |-> "Chromium"] @@
  "Mn" :> [color |-> "#9C7AC7", radius |-> 1390, name |-> "Manganese"] @@
  "Fe" :> [color |-> "#4169E1", radius |-> 1320, name |-> "Iron"] @@
  "Co" :> [color |-> "#F090A0", radius |-> 1260, name |-> "Cobalt"] @@
  "Ni" :> [color |-> "#50D050", radius |-> 1240, name |-> "Nickel"] @@
  "Cu" :> [color |-> "#C88033", radius |-> 1320, name |-> "Copper"] @@
  "Zn" :> [color |-> "#7D80B0", radius |-> 1220, name |-> "Zinc"] @@
  "Ga" :> [color |-> "#C28F8F", radius |-> 1220, name |-> "Gallium"] @@
  "Ge" :> [color |-> "#668F8F", radius |-> 1200, name |-> "Germanium"] @@
  "As" :> [color |-> "#BD80E3", radius |-> 1190, name |-> "Arsenic"] @@
  "Se" :> [color |-> "#FFA100", radius |-> 1200, name |-> "Selenium"] @@
  "Br" :> [color |-> "#A62929", radius |-> 1200, name |-> "Bromine"] @@
  "Kr" :> [color |-> "#5CB8D1", radius |-> 1160, name |-> "Krypton"] @@
  "Rb" :> [color |-> "#702EB0", radius |-> 2200, name |-> "Rubidium"] @@
  "Sr" :> [color |-> "#00FF00", radius |-> 1950, name |-> "Strontium"] @@
  "Y"  :> [color |-> "#94FFFF", radius |-> 1900, name |-> "Yttrium"] @@
  "Zr" :> [color |-> "#94E0E0", radius |-> 1750, name |-> "Zirconium"] @@
  "Nb" :> [color |-> "#73C2C9", radius |-> 1640, name |-> "Niobium"] @@
  "Mo" :> [color |-> "#54B5B5", radius |-> 1540, name |-> "Molybdenum"] @@
  "La" :> [color |-> "#70D4FF", radius |-> 2070, name |-> "Lanthanum"] @@
  "Ce" :> [color |-> "#FFFFC7", radius |-> 2040, name |-> "Cerium"] @@
  "Nd" :> [color |-> "#C7FFC7", radius |-> 2010, name |-> "Neodymium"] @@
  "X"  :> [color |-> "#FF1493", radius |-> 1000, name |-> "Unknown"]

\* the ATOMIC_DATA object of the running program
VARIABLE table

\* String.prototype.trim on the symbols the model uses
Trim(symbol) ==
  CASE symbol = " Si" -> "Si"
    [] symbol = "Xx " -> "Xx"
    [] OTHER -> symbol

\* ATOMIC_DATA[cleanSymbol] || ATOMIC_DATA.X, read from the object as it is
getElementData(symbol) ==
  LET cleanSymbol == Trim(symbol)
  IN IF cleanSymbol \in DOMAIN table THEN table[cleanSymbol] ELSE table["X"]

\* data.radius * scale
getVisualizationRadius(symbol, scale) == Mul(getElementData(symbol).radius, scale)

\* ---------------------------------------------------------------------------
\* Vectors (THREE.Vector3 as a triple)
\* ---------------------------------------------------------------------------

Vec(x, y, z) == <<x, y, z>>

\* v.clone().add(w)
VecAdd(v, w) == <<Add(v[1], w[1]), Add(v[2], w[2]), Add(v[3], w[3])>>

\* p.addScaledVector(v, s)
addScaledVector(p, v, s) ==
  <<Add(p[1], Mul(v[1], s)), Add(p[2], Mul(v[2], s)), Add(p[3], Mul(v[3], s))>>

\* p.distanceTo(q) = Math.sqrt(dx * dx + dy * dy + dz * dz)
distanceTo(p, q) ==
  LET dx == Sub(p[1], q[1])
      dy == Sub(p[2], q[2])
      dz == Sub(p[3], q[3])
  IN MathSqrt(Add(Add(Mul(dx, dx), Mul(dy, dy)), Mul(dz, dz)))

\* ---------------------------------------------------------------------------
\* ImprovedCrystalStructure3D: the processedStructure memo
\* ---------------------------------------------------------------------------

\* the radicand of the z component of cVec
czRadicand(lattice) ==
  LET cosAlpha == MathCosDeg(lattice.alpha)
      cosBeta == MathCosDeg(lattice.beta)
      cosGamma == MathCosDeg(lattice.gamma)
      sinGamma == MathSinDeg(lattice.gamma)
      q == Div(Sub(cosAlpha, Mul(cosBeta, cosGamma)), sinGamma)
  IN Sub(Sub(Scale, Mul(cosBeta, cosBeta)), Mul(q, q))

\* lattice vectors with the two components of bVec exchanged
latticeVectorsSwapped(lattice) ==
  LET cosAlpha == MathCosDeg(lattice.alpha)
      cosBeta == MathCosDeg(lattice.beta)
      cosGamma == MathCosDeg(lattice.gamma)
      sinGamma == MathSinDeg(lattice.gamma)
  IN [aVec |-> Vec(lattice.a, 0, 0),
      bVec |-> Vec(Mul(lattice.b, sinGamma), Mul(lattice.b, cosGamma), 0),
      cVec |-> Vec(Mul(lattice.c, cosBeta),
                   Div(Mul(lattice.c, Sub(cosAlpha, Mul(cosBeta, cosGamma))), sinGamma),
                   Mul(lattice.c, MathSqrt(czRadicand(lattice))))]

\* aVec, bVec, cVec from the six lattice parameters; nothing is thrown
latticeVectors(lattice) ==
  LET cosAlpha == MathCosDeg(lattice.alpha)
      cosBeta == MathCosDeg(lattice.beta)
      cosGamma == MathCosDeg(lattice.gamma)
      sinGamma == MathSinDeg(lattice.gamma)
  IN [aVec |-> Vec(lattice.a, 0, 0),
      bVec |-> Vec(Mul(lattice.b, cosGamma), Mul(lattice.b, sinGamma), 0),
      cVec |-> Vec(Mul(lattice.c, cosBeta),
                   Div(Mul(lattice.c, Sub(cosAlpha, Mul(cosBeta, cosGamma))), sinGamma),
                   Mul(lattice.c, MathSqrt(czRadicand(lattice))))]

\* Math.cos(alphaRad) for an angle of 90 degrees: 6.123e-17, in units of 1e-20
CosHalfPi == 6123

\* what the components of aVec, bVec, cVec carry below the fixed-point
\* resolution, in units of 1e-20, for a lattice with three angles of 90
\* degrees (cosAlpha = cosBeta = cosGamma = Math.cos(Math.PI / 2), sinGamma
\* = 1, and 1 - cosBeta * cosBeta - (...) ** 2 rounds to 1); <<>> for the
\* other lattices, whose components it does not follow
basisResidue(lattice) ==
  IF <<lattice.alpha, lattice.beta, lattice.gamma>> = <<90, 90, 90>>
  THEN <<<<0, 0, 0>>,
         <<TruncDiv(lattice.b * CosHalfPi, Scale), 0, 0>>,
         <<TruncDiv(lattice.c * CosHalfPi, Scale), TruncDiv(lattice.c * CosHalfPi, Scale), 0>>>>
  ELSE <<>>

\* avgLatticeParam < 5 ? 2 : 1
expansionSize(lattice) ==
  LET avgLatticeParam == Div(lattice.a + lattice.b + lattice.c, 3 * Scale)
  IN IF Lt(avgLatticeParam, 5 * Scale) THEN 2 ELSE 1

\* a loop that also runs the translation expansionSize itself
translationsInclusive(n) ==
  [m \in 1..((n + 1) * (n + 1) * (n + 1)) |->
     <<(m - 1) \div ((n + 1) * (n + 1)), ((m - 1) \div (n + 1)) % (n + 1), (m - 1) % (n + 1)>>]

\* the translations (i, j, k) in the order of the three nested loops,
\* each running over 0 .. n - 1
translations(n) ==
  [m \in 1..(n * n * n) |-> <<(m - 1) \div (n * n), ((m - 1) \div n) % n, (m - 1) % n>>]

\* the atom pushed for one site under one translation
makeAtom(site, t, vecs) ==
  LET fracX == Add(site.frac_coords[1], t[1] * Scale)
      fracY == Add(site.frac_coords[2], t[2] * Scale)
      fracZ == Add(site.frac_coords[3], t[3] * Scale)
      position == addScaledVector(addScaledVector(addScaledVector(Vec(0, 0, 0),
                     vecs.aVec, fracX), vecs.bVec, fracY), vecs.cVec, fracZ)
      element == site.species
      atomData == IF element \in DOMAIN table THEN table[element] ELSE table["C"]
  IN [position |-> position, element |-> element,
      radius |-> Mul(atomData.radius, 300), color |-> atomData.color]

\* a loop body that leaves out the last site of the list when there are two
\* or more
generateAtomsButLast(sites, lattice, vecs) ==
  LET T == translations(expansionSize(lattice))
      S == IF Len(sites) > 1 THEN Len(sites) - 1 ELSE Len(sites)
  IN [m \in 1..(Len(T) * S) |-> makeAtom(sites[((m - 1) % S) + 1], T[((m - 1) \div S) + 1], vecs)]

\* the atoms list: for every translation, in loop order, one atom per site
generateAtoms(sites, lattice, vecs) ==
  LET T == translations(expansionSize(lattice))
      S == Len(sites)
  IN [m \in 1..(Len(T) * S) |-> makeAtom(sites[((m - 1) % S) + 1], T[((m - 1) \div S) + 1], vecs)]

\* a bond test that compares with twice the first atom's radius
bondTestFirstRadius(ai, aj) ==
  LET distance == distanceTo(ai.position, aj.position)
  IN /\ Lt(distance, 3000) /\ Gt(distance, 100)
     /\ Lt(distance, Mul(Div(Add(ai.radius, ai.radius), 300), 1500))

\* a bond test without the atomic-radius condition
bondTestCutoffOnly(ai, aj) ==
  LET distance == distanceTo(ai.position, aj.position)
  IN Lt(distance, 3000) /\ Gt(distance, 100)

\* a bond test that compares with the expected bond length itself
bondTestNoRatio(ai, aj) ==
  LET distance == distanceTo(ai.position, aj.position)
      maxBondDistance == 3000
  IN /\ Lt(distance, maxBondDistance) /\ Gt(distance, 100)
     /\ LET expectedBondLength == Div(Add(ai.radius, aj.radius), 300)
        IN Lt(distance, expectedBondLength)

\* the two nested conditions under which a bond is pushed for atoms[i], atoms[j]
bondTest(ai, aj) ==
  LET distance == distanceTo(ai.position, aj.position)
      maxBondDistance == 3000
  IN /\ Lt(distance, maxBondDistance) /\ Gt(distance, 100)
     /\ LET expectedBondLength == Div(Add(ai.radius, aj.radius), 300)
        IN Lt(distance, Mul(expectedBondLength, 1500))

\* the bonds list: pairs i < j in loop order, one bond per pair passing the test
generateBonds(atoms) ==
  LET n == Len(atoms)
      grid == [m \in 1..(n * n) |-> <<((m - 1) \div n) + 1, ((m - 1) % n) + 1>>]
      Pushed(p) == p[1] < p[2] /\ bondTest(atoms[p[1]], atoms[p[2]])
      pairs == SelectSeq(grid, Pushed)
  IN [m \in 1..Len(pairs) |->
        [start |-> atoms[pairs[m][1]].position,
         end |-> atoms[pairs[m][2]].position,
         length |-> distanceTo(atoms[pairs[m][1]].position, atoms[pairs[m][2]].position)]]

\* unitCell.vertices
unitCellVertices(vecs) ==
  <<Vec(0, 0, 0),
    vecs.aVec,
    VecAdd(vecs.aVec, vecs.bVec),
    vecs.bVec,
    vecs.cVec,
    VecAdd(vecs.aVec, vecs.cVec),
    VecAdd(VecAdd(vecs.aVec, vecs.bVec), vecs.cVec),
    VecAdd(vecs.bVec, vecs.cVec)>>

\* the value of the memo for a structure with sites and lattice present;
\* "error" is the exception the computation ended with ("none": it returned)
processedStructure(structure) ==
  LET vecs == latticeVectors(structure.lattice)
      atoms == generateAtoms(structure.sites, structure.lattice, vecs)
  IN [ran |-> TRUE, error |-> "none", basis |-> <<vecs.aVec, vecs.bVec, vecs.cVec>>,
      residue |-> basisResidue(structure.lattice),
      atoms |-> atoms, bonds |-> generateBonds(atoms),
      unitCell |-> unitCellVertices(vecs)]

\* an edge list with a face diagonal in place of the edge from vertex 3 to 0
wireframeEdgesDiagonal ==
  <<<<0, 1>>, <<1, 2>>, <<2, 3>>, <<0, 2>>,
    <<4, 5>>, <<5, 6>>, <<6, 7>>, <<7, 4>>,
    <<0, 4>>, <<1, 5>>, <<2, 6>>, <<3, 7>>>>

\* the edges of the wireframe, as pairs of indices (from 0) into the vertices:
\* bottom face, top face, vertical edges
wireframeEdges ==
  <<<<0, 1>>, <<1, 2>>, <<2, 3>>, <<3, 0>>,
    <<4, 5>>, <<5, 6>>, <<6, 7>>, <<7, 4>>,
    <<0, 4>>, <<1, 5>>, <<2, 6>>, <<3, 7>>>>

\* the lines the effect adds to wireframeGroup: one per edge, from
\* vertices[i] to vertices[j]
drawWireframe(unitCell) ==
  [drawn |-> TRUE,
   lines |-> [m \in 1..Len(wireframeEdges) |->
                [start |-> unitCell[wireframeEdges[m][1] + 1],
                 end |-> unitCell[wireframeEdges[m][2] + 1]]]]

\* ---------------------------------------------------------------------------
\* CrystalStructure3D: the Scene component
\* ---------------------------------------------------------------------------

\* the within-bounds test of the expansion, upper fences only
withinBoundsUpperOnly(newCartCoords, lattice) ==
  LET maxX == Add(Mul(2 * Scale, lattice.a), 100)
      maxY == Add(Mul(2 * Scale, lattice.b), 100)
      maxZ == Add(Mul(2 * Scale, lattice.c), 100)
  IN /\ Le(newCartCoords[1], maxX)
     /\ Le(newCartCoords[2], maxY)
     /\ Le(newCartCoords[3], maxZ)

\* withinBounds of the expansion: the 2x2x2 supercell with a fence of 0.1
withinBounds(newCartCoords, lattice) ==
  LET maxX == Add(Mul(2 * Scale, lattice.a), 100)
      maxY == Add(Mul(2 * Scale, lattice.b), 100)
      maxZ == Add(Mul(2 * Scale, lattice.c), 100)
      minBound == 0 - 100
  IN /\ Ge(newCartCoords[1], minBound) /\ Le(newCartCoords[1], maxX)
     /\ Ge(newCartCoords[2], minBound) /\ Le(newCartCoords[2], maxY)
     /\ Ge(newCartCoords[3], minBound) /\ Le(newCartCoords[3], maxZ)

\* the replica of one site under the translation (dx, dy, dz)
replica(site, d, lattice) ==
  [species |-> site.species,
   id |-> <<site.species, d[1], d[2], d[3]>>,
   frac_coords |-> <<Add(site.frac_coords[1], d[1] * Scale),
                     Add(site.frac_coords[2], d[2] * Scale),
                     Add(site.frac_coords[3], d[3] * Scale)>>,
   cart_coords |-> <<Add(site.cart_coords[1], Mul(d[1] * Scale, lattice.a)),
                     Add(site.cart_coords[2], Mul(d[2] * Scale, lattice.b)),
                     Add(site.cart_coords[3], Mul(d[3] * Scale, lattice.c))>>]

\* the expandedSites memo: dx, dy, dz over 0 .. 2, the replicas within bounds
expandedSites(structure) ==
  IF Len(structure.sites) = 0 THEN <<>>
  ELSE LET T == translations(3)
           S == Len(structure.sites)
           all == [m \in 1..(Len(T) * S) |->
                     replica(structure.sites[((m - 1) % S) + 1], T[((m - 1) \div S) + 1],
                             structure.lattice)]
           Included(r) == withinBounds(r.cart_coords, structure.lattice)
       IN SelectSeq(all, Included)

\* minX (k = 1), minY, minZ after the forEach: Math.min folded from Infinity
\* over coordinate k of every site
foldMin(sites, k) ==
  LET seen == {sites[i].cart_coords[k] : i \in 1..Len(sites)} \cup {PInf}
  IN IF NaN \in seen THEN NaN ELSE CHOOSE v \in seen : \A w \in seen : Le(v, w)

\* maxX (k = 1), maxY, maxZ after the forEach: Math.max folded from -Infinity
\* over coordinate k of every site
foldMax(sites, k) ==
  LET seen == {sites[i].cart_coords[k] : i \in 1..Len(sites)} \cup {NInf}
  IN IF NaN \in seen THEN NaN ELSE CHOOSE v \in seen : \A w \in seen : Ge(v, w)

\* a framing whose empty case returns no floor
sceneFramingNoFloor(sites) ==
  IF Len(sites) = 0 THEN [center |-> <<0, 0, 0>>, bounds |-> 0]
  ELSE LET lo == [k \in 1..3 |-> foldMin(sites, k)]
           hi == [k \in 1..3 |-> foldMax(sites, k)]
           maxRange == MathMax(MathMax(Sub(hi[1], lo[1]), Sub(hi[2], lo[2])), Sub(hi[3], lo[3]))
       IN [center |-> [k \in 1..3 |-> Div(Add(lo[k], hi[k]), 2 * Scale)],
           bounds |-> MathMax(Mul(maxRange, 1500), 10 * Scale)]

\* a framing that takes the span of the x axis for the largest span
sceneFramingXRange(sites) ==
  IF Len(sites) = 0 THEN [center |-> <<0, 0, 0>>, bounds |-> 10 * Scale]
  ELSE LET lo == [k \in 1..3 |-> foldMin(sites, k)]
           hi == [k \in 1..3 |-> foldMax(sites, k)]
           maxRange == Sub(hi[1], lo[1])
       IN [center |-> [k \in 1..3 |-> Div(Add(lo[k], hi[k]), 2 * Scale)],
           bounds |-> MathMax(Mul(maxRange, 1500), 10 * Scale)]

\* the { center, bounds } memo
sceneFraming(sites) ==
  IF Len(sites) = 0 THEN [center |-> <<0, 0, 0>>, bounds |-> 10 * Scale]
  ELSE LET lo == [k \in 1..3 |-> foldMin(sites, k)]
           hi == [k \in 1..3 |-> foldMax(sites, k)]
           maxRange == MathMax(MathMax(Sub(hi[1], lo[1]), Sub(hi[2], lo[2])), Sub(hi[3], lo[3]))
       IN [center |-> [k \in 1..3 |-> Div(Add(lo[k], hi[k]), 2 * Scale)],
           bounds |-> MathMax(Mul(maxRange, 1500), 10 * Scale)]

\* the Atom component rendered for one expanded site (atomScale = 1.0)
renderAtom(site) ==
  [position |-> site.cart_coords,
   element |-> site.species,
   color |-> getElementData(site.species).color,
   radius |-> getVisualizationRadius(site.species, Mul(Scale, 800))]

RECURSIVE totalMagnitude(_, _)
\* the sum over the sites from index i on of Math.sqrt(x*x + y*y + z*z)
totalMagnitude(sites, i) ==
  IF i > Len(sites) THEN 0
  ELSE LET x == sites[i].cart_coords[1]
           y == sites[i].cart_coords[2]
           z == sites[i].cart_coords[3]
       IN Add(MathSqrt(Add(Add(Mul(x, x), Mul(y, y)), Mul(z, z))), totalMagnitude(sites, i + 1))

\* validateStructure for a structure whose lattice matrix and sites'
\* cart_coords are present: the issues found and isValid
validateStructure(structure) ==
  LET siteCount == Len(structure.sites)
      latticeVolume == Mul(Mul(structure.lattice.a, structure.lattice.b), structure.lattice.c)
      avgCoordMagnitude ==
        IF siteCount > 0 THEN Div(totalMagnitude(structure.sites, 1), siteCount * Scale) ELSE 0
      issues ==
        (IF siteCount = 0 THEN {"No sites in structure"} ELSE {})
          \cup (IF Le(latticeVolume, 0) THEN {"Invalid lattice volume"} ELSE {})
          \cup (IF Gt(avgCoordMagnitude, 1000 * Scale)
                THEN {"Suspiciously large coordinate values"} ELSE {})
  IN [isValid |-> issues = {}, issues |-> issues]

\* one render of Scene for a structure
renderScene(structure) ==
  LET expanded == expandedSites(structure)
      framing == sceneFraming(expanded)
  IN [ran |-> TRUE, error |-> "none", validation |-> validateStructure(structure),
      expandedSites |-> expanded,
      atoms |-> [m \in 1..Len(expanded) |-> renderAtom(expanded[m])],
      center |-> framing.center, bounds |-> framing.bounds]

\* lattice.matrix of the record: its rows are the basis vectors of the cell;
\* for parameters that give no finite basis, those of the orthogonal cell of
\* the same lengths
latticeMatrix(lattice) ==
  LET vecs == latticeVectors(lattice)
      rows == <<vecs.aVec, vecs.bVec, vecs.cVec>>
  IN IF \A m \in 1..3 : \A k \in 1..3 : IsFinite(rows[m][k])
     THEN rows
     ELSE <<Vec(lattice.a, 0, 0), Vec(0, lattice.b, 0), Vec(0, 0, lattice.c)>>

\* the edges of UnitCell, as pairs of indices (from 0) into its vertices
unitCellEdges ==
  <<<<0, 1>>, <<0, 2>>, <<0, 3>>,
    <<1, 4>>, <<1, 5>>,
    <<2, 4>>, <<2, 6>>,
    <<3, 5>>, <<3, 6>>,
    <<4, 7>>, <<5, 7>>, <<6, 7>>>>

\* the lines memo of UnitCell: one line per edge, from vertices[start] to
\* vertices[end]
unitCellLines(matrix) ==
  LET vertices ==
        <<Vec(0, 0, 0),
          matrix[1],
          matrix[2],
          matrix[3],
          [k \in 1..3 |-> Add(matrix[1][k], matrix[2][k])],
          [k \in 1..3 |-> Add(matrix[1][k], matrix[3][k])],
          [k \in 1..3 |-> Add(matrix[2][k], matrix[3][k])],
          [k \in 1..3 |-> Add(Add(matrix[1][k], matrix[2][k]), matrix[3][k])]>>
  IN [drawn |-> TRUE,
      lines |-> [m \in 1..Len(unitCellEdges) |->
                   [start |-> vertices[unitCellEdges[m][1] + 1],
                    end |-> vertices[unitCellEdges[m][2] + 1]]]]

\* ---------------------------------------------------------------------------
\* CrystalStructure3D: the debugInfo memo
\* ---------------------------------------------------------------------------

\* the debugInfo memo for a structure whose lattice matrix is present: the
\* replicas within bounds as { species, cart_coords }, and center and bounds
\* folded over them without a test for an empty list
debugInfo(structure) ==
  IF Len(structure.sites) = 0
  THEN [ran |-> TRUE, expandedSites |-> <<>>, center |-> <<0, 0, 0>>, bounds |-> 10 * Scale]
  ELSE LET T == translations(3)
           S == Len(structure.sites)
           all == [m \in 1..(Len(T) * S) |->
                     LET site == structure.sites[((m - 1) % S) + 1]
                         d == T[((m - 1) \div S) + 1]
                     IN [species |-> site.species,
                         cart_coords |->
                           <<Add(site.cart_coords[1], Mul(d[1] * Scale, structure.lattice.a)),
                             Add(site.cart_coords[2], Mul(d[2] * Scale, structure.lattice.b)),
                             Add(site.cart_coords[3], Mul(d[3] * Scale, structure.lattice.c))>>]]
           Included(r) == withinBounds(r.cart_coords, structure.lattice)
           expanded == SelectSeq(all, Included)
           lo == [k \in 1..3 |-> foldMin(expanded, k)]
           hi == [k \in 1..3 |-> foldMax(expanded, k)]
           maxRange == MathMax(MathMax(Sub(hi[1], lo[1]), Sub(hi[2], lo[2])), Sub(hi[3], lo[3]))
       IN [ran |-> TRUE, expandedSites |-> expanded,
           center |-> [k \in 1..3 |-> Div(Add(lo[k], hi[k]), 2 * Scale)],
           bounds |-> MathMax(Mul(maxRange, 1500), 10 * Scale)]

\* ---------------------------------------------------------------------------
\* Inputs
\* ---------------------------------------------------------------------------

\* the largest number of sites of an input structure
MaxSites == 2

\* lattice lengths: small cells (average below 5) and a large one
Lengths == {2 * Scale, 6 * Scale}

\* (alpha, beta, gamma): orthogonal, hexagonal, rhombohedral, gamma = 0 and
\* gamma = 180 (sin gamma = 0), and angles with a negative cz radicand
AngleTriples ==
  {<<90, 90, 90>>, <<90, 90, 120>>, <<60, 60, 60>>,
   <<90, 90, 0>>, <<60, 90, 0>>, <<90, 90, 180>>, <<30, 30, 90>>}

Lattices ==
  {[a |-> a, b |-> b, c |-> b, alpha |-> t[1], beta |-> t[2], gamma |-> t[3]] :
     a \in Lengths, b \in Lengths, t \in AngleTriples}

\* fractional coordinates (also outside [0, 1)) with the cartesian
\* coordinates the record supplies for them
AtOrigin == [frac_coords |-> <<0, 0, 0>>, cart_coords |-> <<0, 0, 0>>]

AtQuarter == [frac_coords |-> <<250, 250, 250>>, cart_coords |-> <<500, 500, 500>>]

AtQuarterMoved == [frac_coords |-> <<250, 250, 250>>, cart_coords |-> <<1500, 1500, 1500>>]

AtMinusHalf == [frac_coords |-> <<0 - 500, 0, 0>>, cart_coords |-> <<0 - 1000, 0, 0>>]

AtOne == [frac_coords |-> <<1000, 0, 0>>, cart_coords |-> <<2000, 0, 0>>]

\* the input sites: a table element ("Si") and an unknown symbol ("Xx")
Sites ==
  {[species |-> q[1], frac_coords |-> q[2].frac_coords, cart_coords |-> q[2].cart_coords] :
     q \in {<<"Si", AtOrigin>>, <<"Si", AtOne>>,
            <<"Xx", AtQuarter>>, <<"Xx", AtQuarterMoved>>, <<"Xx", AtMinusHalf>>}}

SiteLists == UNION {[1..n -> Sites] : n \in 0..MaxSites}

\* orthogonal and hexagonal lattices
IsOrthoOrHex(lattice) ==
  <<lattice.alpha, lattice.beta, lattice.gamma>> \in {<<90, 90, 90>>, <<90, 90, 120>>}

\* a site whose supplied cartesian coordinates lie far outside the cell
FarSite ==
  [species |-> "Si", frac_coords |-> <<0 - 10 * Scale, 0, 0>>,
   cart_coords |-> <<0 - 20 * Scale, 0, 0>>]

\* silicon: the cubic cell of 5.431 with Si at (0, 0, 0) and (1/4, 1/4, 1/4)
SiliconLattice ==
  [a |-> 5431, b |-> 5431, c |-> 5431, alpha |-> 90, beta |-> 90, gamma |-> 90]

SiliconOrigin == [species |-> "Si", frac_coords |-> <<0, 0, 0>>, cart_coords |-> <<0, 0, 0>>]

SiliconQuarter ==
  [species |-> "Si", frac_coords |-> <<250, 250, 250>>, cart_coords |-> <<1357, 1357, 1357>>]

SiliconSiteLists == {<<>>, <<SiliconOrigin>>, <<SiliconOrigin, SiliconQuarter>>}

AllLattices == Lattices \cup {SiliconLattice}

AllSites == Sites \cup {FarSite, SiliconQuarter}

\* the input structures: every lattice with at most one site, the
\* orthogonal and hexagonal lattices with every site list, every lattice
\* with the far site alone, and silicon
Structures ==
  {s \in [lattice : Lattices, sites : SiteLists] :
     Len(s.sites) <= 1 \/ IsOrthoOrHex(s.lattice)}
    \cup [lattice : Lattices, sites : {<<FarSite>>}]
    \cup [lattice : {SiliconLattice}, sites : SiliconSiteLists]

\* ---------------------------------------------------------------------------
\* ExplorationTracker: the exploration tracking service
\* ---------------------------------------------------------------------------

\* Strings whose characters the code inspects (search queries and keywords)
\* are sequences of one-character strings; the value of an optional
\* parameter that was not passed is Undefined; time is counted in hours.
Undefined == "undefined"

\* String.prototype.toLowerCase, on the letters of the queries
toLowerCase(s) ==
  LET lower == [c \in {"C", "E", "S"} |->
                  IF c = "C" THEN "c" ELSE IF c = "E" THEN "e" ELSE "s"]
  IN [i \in DOMAIN s |-> IF s[i] \in DOMAIN lower THEN lower[s[i]] ELSE s[i]]

\* String.prototype.includes
includes(s, keyword) ==
  \E i \in 0..(Len(s) - Len(keyword)) : SubSeq(s, i + 1, i + Len(keyword)) = keyword

\* a test that looks at the first entry only
arrayIncludesFirst(list, x) == Len(list) > 0 /\ list[1] = x

\* Array.prototype.includes
arrayIncludes(list, x) == \E i \in 1..Len(list) : list[i] = x

\* Object.entries(focusKeywords): keyword and focus, in the order of the
\* object literal
focusKeywords ==
  <<<< <<"e","l","e","c","t","r","o","l","y","t","e">>, "solid_electrolytes" >>,
    << <<"c","a","t","h","o","d","e">>, "cathode_materials" >>,
    << <<"c","o","n","d","u","c","t","i","v","i","t","y">>, "high_conductivity" >>,
    << <<"s","t","a","b","l","e">>, "stability_focus" >>,
    << <<"c","o","s","t">>, "cost_conscious" >>,
    << <<"e","n","e","r","g","y">>, "energy_density" >>>>

\* the forEach over the entries, from entry n on: a focus whose keyword the
\* query includes is pushed unless focusAreas includes it already
RECURSIVE pushFocusAreas(_, _, _)
pushFocusAreas(focusAreas, query, n) ==
  IF n > Len(focusKeywords) THEN focusAreas
  ELSE LET keyword == focusKeywords[n][1]
           focus == focusKeywords[n][2]
       IN IF includes(query, keyword) /\ ~arrayIncludes(focusAreas, focus)
          THEN pushFocusAreas(Append(focusAreas, focus), query, n + 1)
          ELSE pushFocusAreas(focusAreas, query, n + 1)

\* updateContext: the currentContext after the event
updateContext(currentContext, event) ==
  LET data == event.data
      materialTypes ==
        IF /\ event.type = "material_view"
           /\ data.crystalSystem # Undefined /\ data.crystalSystem # ""
           /\ ~arrayIncludes(currentContext.materialTypes, data.crystalSystem)
        THEN Append(currentContext.materialTypes, data.crystalSystem)
        ELSE currentContext.materialTypes
      focusAreas ==
        IF event.type = "search" /\ data.searchQuery # <<>>
        THEN pushFocusAreas(currentContext.focusAreas, toLowerCase(data.searchQuery), 1)
        ELSE currentContext.focusAreas
      exploredProperties ==
        IF /\ event.type = "property_focus" /\ data.property # ""
           /\ ~arrayIncludes(currentContext.exploredProperties, data.property)
        THEN Append(currentContext.exploredProperties, data.property)
        ELSE currentContext.exploredProperties
  IN [focusAreas |-> focusAreas, materialTypes |-> materialTypes,
      exploredProperties |-> exploredProperties]

\* generateSessionId: `session_${Date.now()}_${random}`
generateSessionId(time, random) == <<"session", time, random>>

\* the session initializeSession creates
newSession(time, random) ==
  [sessionId |-> generateSessionId(time, random),
   startTime |-> time,
   events |-> <<>>,
   currentContext |-> [focusAreas |-> <<>>, materialTypes |-> <<>>,
                       exploredProperties |-> <<>>]]

\* 2 * 60 * 60 * 1000 milliseconds, in hours
TwoHours == 2

\* what JSON.stringify leaves of the data of an event: a member whose value
\* is undefined is left out
withoutUndefined(data) ==
  IF "crystalSystem" \in DOMAIN data /\ data.crystalSystem = Undefined
  THEN [k \in DOMAIN data \ {"crystalSystem"} |-> data[k]]
  ELSE data

\* JSON.stringify(this.session): the text of the session
stringify(value) ==
  [valid |-> TRUE,
   text |-> [sessionId |-> value.sessionId,
             startTime |-> value.startTime,
             events |-> [i \in DOMAIN value.events |->
                           [type |-> value.events[i].type,
                            timestamp |-> value.events[i].timestamp,
                            data |-> withoutUndefined(value.events[i].data)]],
             currentContext |-> value.currentContext]]

\* a stored text JSON.parse throws on
CorruptText == [valid |-> FALSE, text |-> <<>>]

\* the key of the session in localStorage
STORAGE_KEY == "materials_exploration_session"

\* localStorage.getItem: the text under the key, <<>> (null) without one
getItem(storage, key) == IF key \in DOMAIN storage THEN <<storage[key]>> ELSE <<>>

\* localStorage.setItem
setItem(storage, key, text) ==
  [k \in DOMAIN storage \cup {key} |-> IF k = key THEN text ELSE storage[k]]

\* localStorage.removeItem
removeItem(storage, key) == [k \in DOMAIN storage \ {key} |-> storage[k]]

\* an initializeSession that also restores a session that started exactly
\* two hours ago
initializeSessionAtTwoHours(storage, time, random) ==
  LET stored == getItem(storage, STORAGE_KEY)
  IN IF stored # <<>> /\ stored[1].valid /\ time - stored[1].text.startTime <= TwoHours
     THEN stored[1].text
     ELSE newSession(time, random)

\* initializeSession: the stored session if it parses and started less than
\* two hours ago, a new session otherwise
initializeSession(storage, time, random) ==
  LET stored == getItem(storage, STORAGE_KEY)
  IN IF stored # <<>> /\ stored[1].valid /\ time - stored[1].text.startTime < TwoHours
     THEN stored[1].text
     ELSE newSession(time, random)

\* a track call that overwrites the last event once the list is not empty
trackedOverLast(value, event) ==
  [value EXCEPT !.events = IF @ = <<>> THEN <<event>>
                           ELSE [@ EXCEPT ![Len(@)] = event],
                !.currentContext = updateContext(@, event)]

\* this.session.events.push(event); this.updateContext(event): the session
\* after a track call
tracked(value, event) ==
  [value EXCEPT !.events = Append(@, event),
                !.currentContext = updateContext(@, event)]

\* the events the five track methods build
materialViewEvent(value, time, materialId, materialFormula, crystalSystem) ==
  [type |-> "material_view", timestamp |-> time,
   data |-> [materialId |-> materialId, materialFormula |-> materialFormula,
             crystalSystem |-> crystalSystem, sessionId |-> value.sessionId]]

searchEvent(value, time, query) ==
  [type |-> "search", timestamp |-> time,
   data |-> [searchQuery |-> query, sessionId |-> value.sessionId]]

filterEvent(value, time, filterType, filterValue) ==
  [type |-> "filter", timestamp |-> time,
   data |-> [filterType |-> filterType, filterValue |-> filterValue,
             sessionId |-> value.sessionId]]

propertyFocusEvent(value, time, property) ==
  [type |-> "property_focus", timestamp |-> time,
   data |-> [property |-> property, sessionId |-> value.sessionId]]

comparisonEvent(value, time, materialIds) ==
  [type |-> "comparison", timestamp |-> time,
   data |-> [comparedMaterials |-> materialIds, sessionId |-> value.sessionId]]

\* Array.prototype.slice(start) for an integer start
slice(list, start) ==
  LET from == IF start < 0
              THEN (IF Len(list) + start > 0 THEN Len(list) + start ELSE 0)
              ELSE (IF start < Len(list) THEN start ELSE Len(list))
  IN SubSeq(list, from + 1, Len(list))

\* Array.prototype.reverse
reverse(list) == [i \in 1..Len(list) |-> list[Len(list) + 1 - i]]

\* getRecentMaterials(count): filter, slice(-count), map, reverse
getRecentMaterials(value, count) ==
  LET IsView(e) == e.type = "material_view" /\ e.data.materialFormula # ""
      views == SelectSeq(value.events, IsView)
      last == slice(views, 0 - count)
  IN reverse([i \in 1..Len(last) |-> last[i].data.materialFormula])

\* ---------------------------------------------------------------------------
\* State of the components beside the two structure viewers
\* ---------------------------------------------------------------------------

VARIABLES
  session,       \* ExplorationTracker: this.session of the singleton
  localStorage,  \* the browser's localStorage, a function from keys to texts
  now,           \* Date.now(), in hours
  recent         \* what the last getRecentMaterials call was asked and returned

trackerVars == <<session, localStorage, now, recent>>

\* no getRecentMaterials call yet
NoAnswer == [asked |-> FALSE, count |-> 0, result |-> <<>>]

\* the tracker of a page that never tracked anything
TrackerIdle ==
  /\ now = 0
  /\ localStorage = <<>>
  /\ session = newSession(0, "k7")
  /\ recent = NoAnswer

VARIABLES
  detail,        \* MaterialDetail: the route parameter and the state hooks
  loads,         \* MaterialDetail: the loadMaterialData calls and what each awaits
  browser,       \* MaterialsBrowser: the state hooks (and whether a request was rejected)
  requests,      \* MaterialsBrowser: the loadMaterials calls awaiting a response
  mount          \* ImprovedCrystalStructure3D: its container, refs and effect

detailVars == <<detail, loads>>

browserVars == <<browser, requests>>

lifecycleVars == <<mount>>

\* the value null of a state hook or a ref
Null == [null |-> TRUE]

\* setError(null)
NoError == "null"

\* MaterialDetail before it is mounted
DetailIdle ==
  /\ detail = [materialId |-> "", material |-> Null, calculations |-> <<>>,
               structure |-> Null, loading |-> TRUE, error |-> NoError]
  /\ loads = <<>>

\* MaterialsBrowser before it is mounted
BrowserIdle ==
  /\ browser = [materials |-> <<>>, loading |-> TRUE, page |-> 1, totalPages |-> 1,
                total |-> 0, searchQuery |-> <<>>, elements |-> "", crystalSystem |-> "",
                rejected |-> FALSE]
  /\ requests = <<>>

\* the container and the window without a canvas, a frame or a listener
NotMounted ==
  [mounted |-> FALSE, effectPending |-> FALSE, renderer |-> 0, created |-> 0,
   canvases |-> {}, listeners |-> {}, frames |-> {}, disposed |-> {},
   animationIdRef |-> 0, requested |-> 0]

LifecycleIdle == mount = NotMounted

clientVars == <<trackerVars, detailVars, browserVars, lifecycleVars>>

ClientsIdle == TrackerIdle /\ DetailIdle /\ BrowserIdle /\ LifecycleIdle

\* ---------------------------------------------------------------------------
\* State machine
\* ---------------------------------------------------------------------------

VARIABLES
  structure,   \* the structure prop of both components
  processed,   \* the processedStructure memo of ImprovedCrystalStructure3D
  scene,       \* the memos and atoms of the CrystalStructure3D Scene
  debug,       \* the debugInfo memo of CrystalStructure3D
  wireframe,   \* the lines the effect of ImprovedCrystalStructure3D added
  cellLines,   \* the lines memo of the UnitCell component
  lookup       \* what the last direct call of a lookup function returned

geometryVars == <<structure, processed, scene, debug, wireframe, cellLines, table, lookup>>

vars == <<geometryVars, clientVars>>

NotProcessed ==
  [ran |-> FALSE, error |-> "none", basis |-> <<>>, residue |-> <<>>,
   atoms |-> <<>>, bonds |-> <<>>, unitCell |-> <<>>]

NotRendered ==
  [ran |-> FALSE, error |-> "none", validation |-> [isValid |-> TRUE, issues |-> {}],
   expandedSites |-> <<>>, atoms |-> <<>>,
   center |-> <<0, 0, 0>>, bounds |-> 0]

NotDebugged == [ran |-> FALSE, expandedSites |-> <<>>, center |-> <<0, 0, 0>>, bounds |-> 0]

NotDrawn == [drawn |-> FALSE, lines |-> <<>>]

NoLookup == [called |-> "none"]

Init ==
  /\ structure \in Structures
  /\ processed = NotProcessed
  /\ scene = NotRendered
  /\ debug = NotDebugged
  /\ wireframe = NotDrawn
  /\ cellLines = NotDrawn
  /\ table = ATOMIC_DATA
  /\ lookup = NoLookup
  /\ ClientsIdle

\* a render that also writes the position it computed for each site of the
\* first cell into the cart_coords of the structure it was given
ProcessStructureWritingBack ==
  /\ ~processed.ran
  /\ processed' = processedStructure(structure)
  /\ structure' = [structure EXCEPT !.sites =
        [m \in DOMAIN structure.sites |->
           [structure.sites[m] EXCEPT !.cart_coords =
              makeAtom(structure.sites[m], <<0, 0, 0>>,
                       latticeVectors(structure.lattice)).position]]]
  /\ UNCHANGED <<scene, debug, wireframe, cellLines, table, lookup, clientVars>>

\* ImprovedCrystalStructure3D renders: the memo is computed for the structure
ProcessStructure ==
  /\ ~processed.ran
  /\ processed' = processedStructure(structure)
  /\ UNCHANGED <<structure, scene, debug, wireframe, cellLines, table, lookup, clientVars>>

\* CrystalStructure3D renders: its debugInfo memo is computed and its Scene
\* is rendered for the structure
RenderScene ==
  /\ ~scene.ran
  /\ debug' = debugInfo(structure)
  /\ scene' = renderScene(structure)
  /\ UNCHANGED <<structure, processed, wireframe, cellLines, table, lookup, clientVars>>

\* the parent passes a structure with another lattice: the memos are stale
SetLattice(lattice) ==
  /\ processed.ran /\ scene.ran
  /\ lattice # structure.lattice
  /\ [structure EXCEPT !.lattice = lattice] \in Structures
  /\ structure' = [structure EXCEPT !.lattice = lattice]
  /\ processed' = NotProcessed
  /\ scene' = NotRendered
  /\ debug' = NotDebugged
  /\ wireframe' = NotDrawn
  /\ cellLines' = NotDrawn
  /\ UNCHANGED <<table, lookup, clientVars>>

\* the parent passes a structure with one more site
AddSite(site) ==
  /\ processed.ran /\ scene.ran
  /\ [structure EXCEPT !.sites = Append(@, site)] \in Structures
  /\ structure' = [structure EXCEPT !.sites = Append(@, site)]
  /\ processed' = NotProcessed
  /\ scene' = NotRendered
  /\ debug' = NotDebugged
  /\ wireframe' = NotDrawn
  /\ cellLines' = NotDrawn
  /\ UNCHANGED <<table, lookup, clientVars>>

\* the parent passes a structure without sites
ClearSites ==
  /\ processed.ran /\ scene.ran
  /\ structure.sites # <<>>
  /\ structure' = [structure EXCEPT !.sites = <<>>]
  /\ processed' = NotProcessed
  /\ scene' = NotRendered
  /\ debug' = NotDebugged
  /\ wireframe' = NotDrawn
  /\ cellLines' = NotDrawn
  /\ UNCHANGED <<table, lookup, clientVars>>

Next ==
  \/ ProcessStructure
  \/ RenderScene
  \/ \E lattice \in AllLattices : SetLattice(lattice)
  \/ \E site \in AllSites : AddSite(site)
  \/ ClearSites

Spec == Init /\ [][Next]_vars

\* ---------------------------------------------------------------------------
\* The renders together with their effects and direct lookups
\* ---------------------------------------------------------------------------

\* the effect of ImprovedCrystalStructure3D runs for a memo with atoms and
\* adds the wireframe of its unit cell
DrawWireframe ==
  /\ processed.ran /\ ~wireframe.drawn
  /\ Len(processed.atoms) # 0
  /\ wireframe' = drawWireframe(processed.unitCell)
  /\ UNCHANGED <<structure, processed, scene, debug, cellLines, table, lookup, clientVars>>

\* the Scene renders a UnitCell for the lattice (showUnitCell)
RenderUnitCell ==
  /\ scene.ran /\ ~cellLines.drawn
  /\ cellLines' = unitCellLines(latticeMatrix(structure.lattice))
  /\ UNCHANGED <<structure, processed, scene, debug, wireframe, table, lookup, clientVars>>

\* the symbols and scales of the direct lookups
LookupSymbols == {" Si", "Xx"}

\* the default scale 0.3
LookupScales == {300}

\* a lookup that stores the entry it fell back to under the symbol asked for
GetElementDataCaching(symbol) ==
  /\ lookup' = [called |-> "getElementData", symbol |-> symbol, scale |-> 0,
                result |-> getElementData(symbol)]
  /\ table' = IF Trim(symbol) \in DOMAIN table
              THEN table
              ELSE [k \in DOMAIN table \cup {Trim(symbol)} |->
                      IF k = Trim(symbol) THEN table["X"] ELSE table[k]]
  /\ UNCHANGED <<structure, processed, scene, debug, wireframe, cellLines, clientVars>>

\* a caller looks an element up
GetElementData(symbol) ==
  /\ lookup' = [called |-> "getElementData", symbol |-> symbol, scale |-> 0,
                result |-> getElementData(symbol)]
  /\ UNCHANGED <<structure, processed, scene, debug, wireframe, cellLines, table, clientVars>>

\* a caller asks for the scaled radius of an element
GetVisualizationRadius(symbol, scale) ==
  /\ lookup' = [called |-> "getVisualizationRadius", symbol |-> symbol, scale |-> scale,
                result |-> getVisualizationRadius(symbol, scale)]
  /\ UNCHANGED <<structure, processed, scene, debug, wireframe, cellLines, table, clientVars>>

ViewInit == Init /\ Len(structure.sites) <= 1

ViewNext ==
  \/ ProcessStructure
  \/ DrawWireframe
  \/ RenderScene
  \/ RenderUnitCell
  \/ \E symbol \in LookupSymbols : GetElementData(symbol)
  \/ \E symbol \in LookupSymbols : \E scale \in LookupScales :
       GetVisualizationRadius(symbol, scale)
  \/ \E lattice \in AllLattices : SetLattice(lattice)

ViewSpec == ViewInit /\ [][ViewNext]_vars

\* ---------------------------------------------------------------------------
\* ExplorationTracker: the calls of its methods
\* ---------------------------------------------------------------------------

\* the longest event history
MaxEvents == 3

\* the latest hour of the clock
MaxClock == 2

\* the arguments of the calls: materialId, materialFormula, crystalSystem
\* (one view without a formula and without a crystal system)
MaterialViews ==
  {<<"mp-1", "LiCoO2", "cubic">>, <<"mp-2", "", Undefined>>, <<"mp-3", "Si", "cubic">>}

\* the queries "Cost" and "unstable cost"
Queries ==
  {<<"C","o","s","t">>, <<"u","n","s","t","a","b","l","e"," ","c","o","s","t">>}

Filters == {<<"crystal_system", "cubic">>}

Properties == {"band_gap"}

Comparisons == {<<"mp-1", "mp-2">>}

\* the random part of a session id
Randoms == {"k7", "q2"}

\* the structure viewers, not mounted
GeometryIdle ==
  /\ structure = [lattice |-> SiliconLattice, sites |-> <<>>]
  /\ processed = NotProcessed
  /\ scene = NotRendered
  /\ debug = NotDebugged
  /\ wireframe = NotDrawn
  /\ cellLines = NotDrawn
  /\ table = ATOMIC_DATA
  /\ lookup = NoLookup

\* what no method of the tracker touches
notTrackerVars == <<geometryVars, detailVars, browserVars, lifecycleVars>>

\* the common body of the five track methods: push, updateContext,
\* saveSession
Track(event) ==
  /\ Len(session.events) < MaxEvents
  /\ LET after == tracked(session, event)
     IN /\ session' = after
        /\ localStorage' = setItem(localStorage, STORAGE_KEY, stringify(after))
  /\ recent' = NoAnswer
  /\ UNCHANGED <<now, notTrackerVars>>

TrackMaterialView(view) ==
  Track(materialViewEvent(session, now, view[1], view[2], view[3]))

TrackSearch(query) == Track(searchEvent(session, now, query))

TrackFilter(filter) == Track(filterEvent(session, now, filter[1], filter[2]))

TrackPropertyFocus(property) == Track(propertyFocusEvent(session, now, property))

TrackComparison(materialIds) == Track(comparisonEvent(session, now, materialIds))

\* getRecentMaterials(count)
GetRecentMaterials(count) ==
  /\ recent' = [asked |-> TRUE, count |-> count,
                result |-> getRecentMaterials(session, count)]
  /\ UNCHANGED <<session, localStorage, now, notTrackerVars>>

\* resetSession: removeItem, then initializeSession
ResetSession(random) ==
  /\ localStorage' = removeItem(localStorage, STORAGE_KEY)
  /\ session' = initializeSession(removeItem(localStorage, STORAGE_KEY), now, random)
  /\ recent' = NoAnswer
  /\ UNCHANGED <<now, notTrackerVars>>

\* the page is loaded again: the module constructs its tracker
Construct(random) ==
  /\ session' = initializeSession(localStorage, now, random)
  /\ recent' = NoAnswer
  /\ UNCHANGED <<localStorage, now, notTrackerVars>>

\* an hour passes
Tick ==
  /\ now < MaxClock
  /\ now' = now + 1
  /\ UNCHANGED <<session, localStorage, recent, notTrackerVars>>

\* the page is loaded with nothing, or with a text that does not parse,
\* under the key
TrackerInit ==
  /\ GeometryIdle
  /\ DetailIdle /\ BrowserIdle /\ LifecycleIdle
  /\ now = 0
  /\ localStorage \in {<<>>, setItem(<<>>, STORAGE_KEY, CorruptText)}
  /\ \E random \in Randoms : session = initializeSession(localStorage, 0, random)
  /\ recent = NoAnswer

\* the tracker in use within one hour
TrackerNext ==
  \/ \E view \in MaterialViews : TrackMaterialView(view)
  \/ \E query \in Queries : TrackSearch(query)
  \/ \E filter \in Filters : TrackFilter(filter)
  \/ \E property \in Properties : TrackPropertyFocus(property)
  \/ \E materialIds \in Comparisons : TrackComparison(materialIds)
  \/ \E count \in 0..MaxEvents : GetRecentMaterials(count)
  \/ \E random \in Randoms : ResetSession(random)

TrackerSpec == TrackerInit /\ [][TrackerNext]_vars

\* the tracker over the hours, with reloads of the page
PersistNext ==
  \/ TrackMaterialView(<<"mp-2", "", Undefined>>)
  \/ TrackSearch(<<"C","o","s","t">>)
  \/ \E filter \in Filters : TrackFilter(filter)
  \/ \E property \in Properties : TrackPropertyFocus(property)
  \/ \E materialIds \in Comparisons : TrackComparison(materialIds)
  \/ ResetSession("q2")
  \/ Construct("k7")
  \/ Tick

PersistSpec == TrackerInit /\ [][PersistNext]_vars

\* ---------------------------------------------------------------------------
\* MaterialDetail: the route parameter, the effect and loadMaterialData
\* ---------------------------------------------------------------------------

\* the loadMaterialData calls that may be started
MaxLoads == 3

\* the materials of the route: "mp-1" has calculations and a structure,
\* "mp-2" has neither (the two requests are rejected), "mp-0" is unknown
\* (getMaterial is rejected)
MaterialIds == {"mp-1", "mp-2", "mp-0"}

HasMaterial(id) == id \in {"mp-1", "mp-2"}

HasCalculations(id) == id = "mp-1"

HasStructure(id) == id = "mp-1"

\* what the three requests resolve to
materialData(id) == [material_id |-> id]

calculationsData(id) == <<[material_id |-> id, calculation |-> 1]>>

structureData(id) == [material_id |-> id, num_sites |-> 2]

\* what no step of MaterialDetail touches
notDetailVars == <<geometryVars, trackerVars, browserVars, lifecycleVars>>

\* the call n awaits the request
Awaits(n, request) == n \in 1..Len(loads) /\ loads[n].awaits = request

\* the route parameter changes: the effect calls loadMaterialData(id), which
\* sets loading and clears the error before its first request
Navigate(id) ==
  /\ id # detail.materialId
  /\ Len(loads) < MaxLoads
  /\ detail' = [detail EXCEPT !.materialId = id, !.loading = TRUE, !.error = NoError]
  /\ loads' = Append(loads, [id |-> id, awaits |-> "getMaterial"])
  /\ UNCHANGED notDetailVars

\* getMaterial resolves: setMaterial, then the calculations are requested
MaterialResolves(n) ==
  /\ Awaits(n, "getMaterial") /\ HasMaterial(loads[n].id)
  /\ detail' = [detail EXCEPT !.material = materialData(loads[n].id)]
  /\ loads' = [loads EXCEPT ![n].awaits = "getMaterialCalculations"]
  /\ UNCHANGED notDetailVars

\* getMaterial is rejected: the outer catch sets the error, finally clears
\* loading
MaterialRejects(n) ==
  /\ Awaits(n, "getMaterial") /\ ~HasMaterial(loads[n].id)
  /\ detail' = [detail EXCEPT !.error = "Failed to load material data", !.loading = FALSE]
  /\ loads' = [loads EXCEPT ![n].awaits = "done"]
  /\ UNCHANGED notDetailVars

\* getMaterialCalculations resolves: setCalculations, then the structure is
\* requested
CalculationsResolve(n) ==
  /\ Awaits(n, "getMaterialCalculations") /\ HasCalculations(loads[n].id)
  /\ detail' = [detail EXCEPT !.calculations = calculationsData(loads[n].id)]
  /\ loads' = [loads EXCEPT ![n].awaits = "getMaterialStructure"]
  /\ UNCHANGED notDetailVars

\* getMaterialCalculations is rejected: the inner catch logs, then the
\* structure is requested
CalculationsReject(n) ==
  /\ Awaits(n, "getMaterialCalculations") /\ ~HasCalculations(loads[n].id)
  /\ loads' = [loads EXCEPT ![n].awaits = "getMaterialStructure"]
  /\ UNCHANGED <<detail, notDetailVars>>

\* getMaterialStructure resolves: setStructure, finally clears loading
StructureResolves(n) ==
  /\ Awaits(n, "getMaterialStructure") /\ HasStructure(loads[n].id)
  /\ detail' = [detail EXCEPT !.structure = structureData(loads[n].id), !.loading = FALSE]
  /\ loads' = [loads EXCEPT ![n].awaits = "done"]
  /\ UNCHANGED notDetailVars

\* getMaterialStructure is rejected: the inner catch logs, finally clears
\* loading
StructureRejects(n) ==
  /\ Awaits(n, "getMaterialStructure") /\ ~HasStructure(loads[n].id)
  /\ detail' = [detail EXCEPT !.loading = FALSE]
  /\ loads' = [loads EXCEPT ![n].awaits = "done"]
  /\ UNCHANGED notDetailVars

\* the component is mounted on the route of a material and its effect has
\* called loadMaterialData
DetailInit ==
  /\ GeometryIdle /\ TrackerIdle /\ BrowserIdle /\ LifecycleIdle
  /\ \E id \in MaterialIds :
       /\ detail = [materialId |-> id, material |-> Null, calculations |-> <<>>,
                    structure |-> Null, loading |-> TRUE, error |-> NoError]
       /\ loads = <<[id |-> id, awaits |-> "getMaterial"]>>

DetailNext ==
  \/ \E id \in MaterialIds : Navigate(id)
  \/ \E n \in 1..MaxLoads : MaterialResolves(n)
  \/ \E n \in 1..MaxLoads : MaterialRejects(n)
  \/ \E n \in 1..MaxLoads : CalculationsResolve(n)
  \/ \E n \in 1..MaxLoads : CalculationsReject(n)
  \/ \E n \in 1..MaxLoads : StructureResolves(n)
  \/ \E n \in 1..MaxLoads : StructureRejects(n)

DetailSpec == DetailInit /\ [][DetailNext]_vars

\* ---------------------------------------------------------------------------
\* MaterialsBrowser: the list, its filters and loadMaterials
\* ---------------------------------------------------------------------------

\* the loadMaterials calls that may await a response at a time
MaxRequests == 2

\* const pageSize = 20
pageSize == 20

\* the pages of the pagination and the values typed into the filters
Pages == {1, 2}

FilterValues ==
  [searchQuery |-> {<<>>, <<"C","o","s","t">>},
   elements |-> {""},
   crystalSystem |-> {"", "cubic"}]

\* what no step of MaterialsBrowser touches (handleSearch calls the tracker)
notBrowserVars == <<geometryVars, detailVars, lifecycleVars, now, recent>>

\* the request loadMaterials sends for the state of the render it was
\* created in
request(state) ==
  IF state.searchQuery # <<>> \/ state.elements # "" \/ state.crystalSystem # ""
  THEN [api |-> "searchMaterials", query |-> state.searchQuery,
        elements |-> state.elements, crystal_system |-> state.crystalSystem,
        page |-> state.page, page_size |-> pageSize]
  ELSE [api |-> "getMaterials", query |-> <<>>, elements |-> "", crystal_system |-> "",
        page |-> state.page, page_size |-> pageSize]

\* the SearchResponse of the API to a request: the number of materials that
\* match depends on the filters, the items on the page as well
response(req) ==
  LET total == IF req.api = "getMaterials" THEN 40
               ELSE IF req.query # <<>> /\ req.crystal_system # "" THEN 21
               ELSE IF req.query # <<>> THEN 25
               ELSE 30
  IN [items |-> <<req.query, req.elements, req.crystal_system, req.page>>,
      total |-> total,
      pages |-> (total + req.page_size - 1) \div req.page_size]

\* the list without its entry n
without(list, n) == SubSeq(list, 1, n - 1) \o SubSeq(list, n + 1, Len(list))

\* the pagination sets another page: the effect calls loadMaterials
SetPage(page) ==
  /\ page # browser.page
  /\ Len(requests) < MaxRequests
  /\ browser' = [browser EXCEPT !.page = page, !.loading = TRUE]
  /\ requests' = Append(requests, request([browser EXCEPT !.page = page]))
  /\ UNCHANGED <<session, localStorage, notBrowserVars>>

\* a filter field is edited: the effect calls loadMaterials
EditFilter(field, value) ==
  /\ value # browser[field]
  /\ Len(requests) < MaxRequests
  /\ browser' = [browser EXCEPT ![field] = value, !.loading = TRUE]
  /\ requests' = Append(requests, request([browser EXCEPT ![field] = value]))
  /\ UNCHANGED <<session, localStorage, notBrowserVars>>

\* the events handleSearch has the tracker record, in order
searchEvents(state, value, time) ==
  (IF state.searchQuery # <<>> THEN <<searchEvent(value, time, state.searchQuery)>> ELSE <<>>)
  \o (IF state.elements # ""
      THEN <<filterEvent(value, time, "elements", state.elements)>> ELSE <<>>)
  \o (IF state.crystalSystem # ""
      THEN <<filterEvent(value, time, "crystal_system", state.crystalSystem)>> ELSE <<>>)

\* the session after the track calls for the events, one after the other
RECURSIVE trackedAll(_, _)
trackedAll(value, events) ==
  IF events = <<>> THEN value
  ELSE trackedAll(tracked(value, Head(events)), Tail(events))

\* handleSearch: the tracker calls, setPage(1), and loadMaterials() of the
\* render the handler belongs to; when the page was not 1 the effect calls
\* loadMaterials again after the render
HandleSearch ==
  LET events == searchEvents(browser, session, now)
      after == trackedAll(session, events)
      direct == request(browser)
      byEffect == IF browser.page # 1
                  THEN <<request([browser EXCEPT !.page = 1])>> ELSE <<>>
  IN /\ Len(session.events) + Len(events) <= MaxEvents
     /\ Len(requests) + 1 + Len(byEffect) <= MaxRequests
     /\ session' = after
     /\ localStorage' = IF events = <<>> THEN localStorage
                        ELSE setItem(localStorage, STORAGE_KEY, stringify(after))
     /\ browser' = [browser EXCEPT !.page = 1, !.loading = TRUE]
     /\ requests' = requests \o <<direct>> \o byEffect
     /\ UNCHANGED notBrowserVars

\* the response to the call n arrives: the three setters, finally
\* setLoading(false)
ResponseArrives(n) ==
  /\ n \in 1..Len(requests)
  /\ browser' = [browser EXCEPT !.materials = response(requests[n]).items,
                                !.total = response(requests[n]).total,
                                !.totalPages = response(requests[n]).pages,
                                !.loading = FALSE]
  /\ requests' = without(requests, n)
  /\ UNCHANGED <<session, localStorage, notBrowserVars>>

\* the request of the call n is rejected: the catch logs, finally
\* setLoading(false)
RequestRejected(n) ==
  /\ n \in 1..Len(requests)
  /\ browser' = [browser EXCEPT !.loading = FALSE, !.rejected = TRUE]
  /\ requests' = without(requests, n)
  /\ UNCHANGED <<session, localStorage, notBrowserVars>>

\* the component is mounted and its effect has called loadMaterials
BrowserInit ==
  /\ GeometryIdle /\ TrackerIdle /\ DetailIdle /\ LifecycleIdle
  /\ browser = [materials |-> <<>>, loading |-> TRUE, page |-> 1, totalPages |-> 1,
                total |-> 0, searchQuery |-> <<>>, elements |-> "", crystalSystem |-> "",
                rejected |-> FALSE]
  /\ requests = <<request(browser)>>

BrowserNext ==
  \/ \E page \in Pages : SetPage(page)
  \/ \E field \in DOMAIN FilterValues : \E value \in FilterValues[field] :
       EditFilter(field, value)
  \/ HandleSearch
  \/ \E n \in 1..MaxRequests : ResponseArrives(n)
  \/ \E n \in 1..MaxRequests : RequestRejected(n)

BrowserSpec == BrowserInit /\ [][BrowserNext]_vars

\* ---------------------------------------------------------------------------
\* ImprovedCrystalStructure3D: the effect that sets up and cleans up the scene
\* ---------------------------------------------------------------------------

\* the renderers that may be created and the animation frames the browser
\* may run
MaxRenderers == 3

MaxFrames == 4

\* the structures the parent passes: silicon without sites, with one site
\* and with two
LifecycleStructures == [lattice : {SiliconLattice}, sites : SiliconSiteLists]

\* what neither the render nor the effect touches
notLifecycleVars ==
  <<scene, debug, wireframe, cellLines, table, lookup, trackerVars, detailVars, browserVars>>

\* a cleanup that leaves the requested animation frame pending
cleanupWithoutCancel(m) ==
  [m EXCEPT !.listeners = @ \ {m.renderer},
            !.canvases = @ \ {m.renderer},
            !.disposed = @ \cup {m.renderer},
            !.renderer = 0]

\* the cleanup function the effect returned for its renderer:
\* removeEventListener, cancelAnimationFrame(animationIdRef.current) if the
\* ref is set, removeChild, dispose
cleanup(m) ==
  [m EXCEPT !.listeners = @ \ {m.renderer},
            !.frames = IF m.animationIdRef # 0
                       THEN {f \in @ : f.id # m.animationIdRef} ELSE @,
            !.canvases = @ \ {m.renderer},
            !.disposed = @ \cup {m.renderer},
            !.renderer = 0]

\* the body of the effect: nothing without a container or without atoms;
\* otherwise a new renderer whose canvas is appended to the container, the
\* first animate() call, which requests a frame, and the resize listener
setup(m, atoms) ==
  IF ~m.mounted \/ Len(atoms) = 0 THEN m
  ELSE LET id == m.created + 1
           frame == m.requested + 1
       IN [m EXCEPT !.created = id,
                    !.renderer = id,
                    !.canvases = @ \cup {id},
                    !.frames = @ \cup {[id |-> frame, of |-> id]},
                    !.requested = frame,
                    !.animationIdRef = frame,
                    !.listeners = @ \cup {id}]

\* the parent renders the component with a structure (the first time, or
\* another one): the memo is computed and the effect is due
Render(s) ==
  /\ ~mount.mounted \/ s # structure
  /\ mount.created < MaxRenderers
  /\ structure' = s
  /\ processed' = processedStructure(s)
  /\ mount' = IF mount.mounted
              THEN [mount EXCEPT !.effectPending = TRUE]
              ELSE [mount EXCEPT !.mounted = TRUE, !.effectPending = TRUE,
                                 !.animationIdRef = 0]
  /\ UNCHANGED notLifecycleVars

\* React runs the effect that is due: the cleanup of the previous run, if it
\* returned one, then the body
FlushEffect ==
  /\ mount.mounted /\ mount.effectPending
  /\ mount' = setup([(IF mount.renderer # 0 THEN cleanup(mount) ELSE mount)
                       EXCEPT !.effectPending = FALSE],
                    processed.atoms)
  /\ UNCHANGED <<structure, processed, notLifecycleVars>>

\* the browser runs a requested frame: animate renders and requests the next
AnimationFrame(f) ==
  /\ f \in mount.frames
  /\ mount.requested < MaxFrames
  /\ mount' = [mount EXCEPT !.frames = (@ \ {f}) \cup {[id |-> mount.requested + 1, of |-> f.of]},
                            !.requested = @ + 1,
                            !.animationIdRef = mount.requested + 1]
  /\ UNCHANGED <<structure, processed, notLifecycleVars>>

\* the component is unmounted: the cleanup of the last run, if it returned
\* one
Unmount ==
  /\ mount.mounted
  /\ mount' = [(IF mount.renderer # 0 THEN cleanup(mount) ELSE mount)
                 EXCEPT !.mounted = FALSE, !.effectPending = FALSE]
  /\ UNCHANGED <<structure, processed, notLifecycleVars>>

LifecycleInit ==
  /\ GeometryIdle
  /\ ClientsIdle

LifecycleNext ==
  \/ \E s \in LifecycleStructures : Render(s)
  \/ FlushEffect
  \/ \E f \in mount.frames : AnimationFrame(f)
  \/ Unmount

LifecycleSpec == LifecycleInit /\ [][LifecycleNext]_vars

TypeOK ==
  /\ structure \in Structures
  /\ processed.ran \in BOOLEAN
  /\ scene.ran \in BOOLEAN

\* ---------------------------------------------------------------------------
\* Properties
\* ---------------------------------------------------------------------------

\* the atom pairs i < j of a memo value
AtomPairs(p) == {q \in (1..Len(p.atoms)) \X (1..Len(p.atoms)) : q[1] < q[2]}

\* the unscaled covalent radius an atom carries: radius / 0.3
Unscaled(atom) == Div(atom.radius, 300)

\* 0.1 < d < 3.0 and d < 1.5 * (r_i + r_j)
BondPredicate(ai, aj) ==
  LET d == distanceTo(ai.position, aj.position)
  IN /\ Lt(100, d) /\ Lt(d, 3000)
     /\ Lt(d, Mul(1500, Add(Unscaled(ai), Unscaled(aj))))

\* the pairs of a memo value that satisfy the predicate
BondedPairs(p) == {q \in AtomPairs(p) : BondPredicate(p.atoms[q[1]], p.atoms[q[2]])}

\* q1 before q2 in the order of the pair loop
PairBefore(q1, q2) == q1[1] < q2[1] \/ (q1[1] = q2[1] /\ q1[2] < q2[2])

\* C1: the bonds of the memo are exactly the atom pairs i < j with
\* 0.1 < d < 3.0 and d < 1.5 * (r_i + r_j), r the unscaled radii of the two
\* atoms: one Bond per such pair, in loop order, joining the two positions,
\* and no Bond for any other pair.
Thm_C1_BondIffPredicate ==
  processed.ran =>
    LET good == BondedPairs(processed)
    IN /\ Len(processed.bonds) = Cardinality(good)
       /\ \A q \in good :
            LET r == Cardinality({q2 \in good : PairBefore(q2, q)}) + 1
            IN /\ processed.bonds[r].start = processed.atoms[q[1]].position
               /\ processed.bonds[r].end = processed.atoms[q[2]].position
               /\ processed.bonds[r].length =
                    distanceTo(processed.atoms[q[1]].position, processed.atoms[q[2]].position)

\* C1 witness: a run with a bonded pair, a pair within the cutoff that fails
\* the radius condition, and a pair beyond the cutoff
Wit_C1_BondIffPredicate ==
  /\ processed.ran
  /\ processed.bonds # <<>>
  /\ \E q \in AtomPairs(processed) :
       LET d == distanceTo(processed.atoms[q[1]].position, processed.atoms[q[2]].position)
       IN Lt(d, 3000) /\ Lt(100, d) /\ q \notin BondedPairs(processed)
  /\ \E q \in AtomPairs(processed) :
       ~Lt(distanceTo(processed.atoms[q[1]].position, processed.atoms[q[2]].position), 3000)

\* C2: the bond list has no duplicates and no self-pairs: no Bond joins a
\* position to itself and no two Bonds of the list have the same pair of end
\* positions.
Cex_C2_NoDuplicateBonds ==
  processed.ran =>
    /\ \A m \in 1..Len(processed.bonds) : processed.bonds[m].start # processed.bonds[m].end
    /\ \A m, k \in 1..Len(processed.bonds) :
         m # k => {processed.bonds[m].start, processed.bonds[m].end}
                    # {processed.bonds[k].start, processed.bonds[k].end}

\* the permutations of 1 .. n
Perms(n) == {f \in [1..n -> 1..n] : \A x, y \in 1..n : f[x] = f[y] => x = y}

\* the structure with its sites in the order f
Permuted(s, f) == [s EXCEPT !.sites = [m \in 1..Len(s.sites) |-> s.sites[f[m]]]]

\* the unordered pairs of end positions of a bond list
BondSet(bonds) == {{bonds[m].start, bonds[m].end} : m \in 1..Len(bonds)}

\* C3: the bond test is symmetric and irreflexive on the atoms of the memo,
\* and the memo of the structure with its sites in any other order has the
\* same set of bonded unordered pairs.
Thm_C3_SymmetricIrreflexive ==
  processed.ran =>
    /\ \A q \in AtomPairs(processed) :
         bondTest(processed.atoms[q[1]], processed.atoms[q[2]])
           = bondTest(processed.atoms[q[2]], processed.atoms[q[1]])
    /\ \A i \in 1..Len(processed.atoms) : ~bondTest(processed.atoms[i], processed.atoms[i])
    /\ \A f \in Perms(Len(structure.sites)) :
         BondSet(processedStructure(Permuted(structure, f)).bonds) = BondSet(processed.bonds)

\* C3 witness: a run on two sites of different elements, with bonds, among
\* them one between atoms of the two elements
Wit_C3_SymmetricIrreflexive ==
  /\ processed.ran
  /\ Len(structure.sites) >= 2
  /\ structure.sites[1].species # structure.sites[2].species
  /\ \E q \in BondedPairs(processed) :
       processed.atoms[q[1]].element # processed.atoms[q[2]].element
  /\ processed.bonds # <<>>

\* sin gamma is zero: gamma is 0 or 180 degrees
IsDegenerate(lattice) == MathSinDeg(lattice.gamma) = 0

\* sin gamma is not zero and the radicand of cz is negative
IsInvalid(lattice) == ~IsDegenerate(lattice) /\ Lt(czRadicand(lattice), 0)

\* C4: for gamma = 0 or 180 degrees the computation of the basis vectors
\* fails with DegenerateLatticeError and returns no basis vectors.
Cex_C4_DegenerateLatticeError ==
  (processed.ran /\ IsDegenerate(structure.lattice)) =>
    processed.error = "DegenerateLatticeError" /\ processed.basis = <<>>

\* C5: for a negative cz radicand the computation of the basis vectors fails
\* with InvalidLatticeError and returns no basis vector.
Cex_C5_InvalidLatticeError ==
  (processed.ran /\ IsInvalid(structure.lattice)) =>
    processed.error = "InvalidLatticeError" /\ processed.basis = <<>>

\* every coordinate of every vector of the sequence is finite
AllFinite(vectors) == \A m \in 1..Len(vectors) : \A k \in 1..3 : IsFinite(vectors[m][k])

\* C6: a run either succeeds with a complete render model (atoms, bonds and
\* the 8 cell vertices, all finite) or fails with one of the two lattice
\* errors; on a degenerate or invalid lattice it fails and produces no atoms,
\* no bonds and no unit-cell vertices.
Cex_C6_SucceedsOrLatticeError ==
  processed.ran =>
    /\ \/ /\ processed.error = "none"
          /\ Len(processed.unitCell) = 8
          /\ AllFinite(processed.unitCell)
          /\ AllFinite([m \in 1..Len(processed.atoms) |-> processed.atoms[m].position])
       \/ processed.error \in {"DegenerateLatticeError", "InvalidLatticeError"}
    /\ (IsDegenerate(structure.lattice) \/ IsInvalid(structure.lattice)) =>
         /\ processed.error \in {"DegenerateLatticeError", "InvalidLatticeError"}
         /\ processed.atoms = <<>>
         /\ processed.bonds = <<>>
         /\ processed.unitCell = <<>>

\* C7: an unknown species symbol raises nothing and resolves to the fallback
\* entry X of the table, in the atoms of the memo (color, radius * 0.3) as in
\* the atoms the Scene renders through getElementData (color, radius * 0.8).
Cex_C7_UnknownSpeciesFallback ==
  /\ processed.ran =>
       /\ processed.error = "none"
       /\ \A m \in 1..Len(processed.atoms) :
            processed.atoms[m].element \notin DOMAIN ATOMIC_DATA =>
              /\ processed.atoms[m].color = "#FF1493"
              /\ processed.atoms[m].radius = Mul(1 * Scale, 300)
  /\ scene.ran =>
       /\ scene.error = "none"
       /\ \A m \in 1..Len(scene.atoms) :
            scene.atoms[m].element \notin DOMAIN ATOMIC_DATA =>
              /\ scene.atoms[m].color = "#FF1493"
              /\ scene.atoms[m].radius = Mul(1 * Scale, 800)

\* C8: a structure with a valid lattice and no sites gives atoms = [],
\* bonds = [] and a framing extent equal to the floor 10, and nothing raises.
Thm_C8_EmptySites ==
  (structure.sites = <<>> /\ ~IsDegenerate(structure.lattice) /\ ~IsInvalid(structure.lattice)) =>
    /\ processed.ran =>
         processed.atoms = <<>> /\ processed.bonds = <<>> /\ processed.error = "none"
    /\ scene.ran =>
         /\ scene.expandedSites = <<>> /\ scene.atoms = <<>>
         /\ scene.bounds = 10 * Scale
         /\ scene.error = "none"

\* C8 witness: both components have rendered a structure with a valid
\* lattice and no sites
Wit_C8_EmptySites ==
  /\ structure.sites = <<>>
  /\ ~IsDegenerate(structure.lattice) /\ ~IsInvalid(structure.lattice)
  /\ processed.ran /\ scene.ran

\* x within [-0.1, n * length + 0.1]
InEnvelope(x, n, length) == IsFinite(x) /\ x >= 0 - 100 /\ x <= n * length + 100

\* the position p within the envelope of n cells on every axis
InsideEnvelope(p, n, lattice) ==
  /\ InEnvelope(p[1], n, lattice.a)
  /\ InEnvelope(p[2], n, lattice.b)
  /\ InEnvelope(p[3], n, lattice.c)

\* the last translation of the memo's loops (they run over 0 .. N)
LastTranslation(lattice) == IF lattice.a + lattice.b + lattice.c < 15 * Scale THEN 1 ELSE 0

Moved(site, d, lattice) ==
  <<site.cart_coords[1] + d[1] * lattice.a,
    site.cart_coords[2] + d[2] * lattice.b,
    site.cart_coords[3] + d[3] * lattice.c>>

Thm_C10_AtomCountBound ==
  LET N == LastTranslation(structure.lattice)
  IN /\ processed.ran => Len(processed.atoms) <= (N + 1) * (N + 1) * (N + 1) * Len(structure.sites)
     /\ scene.ran => Len(scene.expandedSites) <= 27 * Len(structure.sites)
     /\ (Len(structure.sites) = 1 /\ structure.sites[1].frac_coords = <<0, 0, 0>>) =>
          /\ processed.ran => Len(processed.atoms) <= (N + 1) * (N + 1) * (N + 1)
          /\ scene.ran => Len(scene.expandedSites) <= 27

\* C10 witness: a single site at (0, 0, 0) expanded to all 8 atoms of the
\* translations 0 .. 1 by the memo, and expanded by the Scene
Wit_C10_AtomCountBound ==
  /\ processed.ran /\ scene.ran
  /\ Len(structure.sites) = 1
  /\ structure.sites[1].frac_coords = <<0, 0, 0>>
  /\ Len(processed.atoms) = 8
  /\ Len(scene.expandedSites) > 0

\* s2 is s1 with other cart_coords on its sites and nothing else changed
SameButCart(s1, s2) ==
  /\ s2.lattice = s1.lattice
  /\ Len(s2.sites) = Len(s1.sites)
  /\ \A n \in 1..Len(s1.sites) :
       /\ s2.sites[n].species = s1.sites[n].species
       /\ s2.sites[n].frac_coords = s1.sites[n].frac_coords
  /\ s2 # s1

\* the positions of a list of atoms of the memo
AtomPositions(atoms) == [m \in 1..Len(atoms) |-> atoms[m].position]

\* the positions of a list of expanded sites
SitePositions(sites) == [m \in 1..Len(sites) |-> sites[m].cart_coords]

\* C11: supplied cartesian coordinates are not trusted: a structure that
\* differs from the rendered one only in its sites' cart_coords gives the
\* same atom positions, bonds and framing, in the memo, the Scene and the
\* debugInfo memo.
Cex_C11_CartCoordsNotTrusted ==
  \A s2 \in Structures :
    SameButCart(structure, s2) =>
      /\ processed.ran =>
           /\ AtomPositions(processedStructure(s2).atoms) = AtomPositions(processed.atoms)
           /\ processedStructure(s2).bonds = processed.bonds
      /\ scene.ran =>
           /\ SitePositions(expandedSites(s2)) = SitePositions(scene.expandedSites)
           /\ sceneFraming(expandedSites(s2)).center = scene.center
           /\ sceneFraming(expandedSites(s2)).bounds = scene.bounds
      /\ debug.ran =>
           /\ SitePositions(debugInfo(s2).expandedSites) = SitePositions(debug.expandedSites)
           /\ debugInfo(s2).center = debug.center
           /\ debugInfo(s2).bounds = debug.bounds

\* the least and the greatest coordinate k among the sites of a non-empty list
AxisMin(sites, k) ==
  CHOOSE v \in {sites[m].cart_coords[k] : m \in 1..Len(sites)} :
    \A n \in 1..Len(sites) : Le(v, sites[n].cart_coords[k])

AxisMax(sites, k) ==
  CHOOSE v \in {sites[m].cart_coords[k] : m \in 1..Len(sites)} :
    \A n \in 1..Len(sites) : Ge(v, sites[n].cart_coords[k])

\* the largest of the three per-axis spans max - min
LargestSpan(sites) ==
  LET span == [k \in 1..3 |-> Sub(AxisMax(sites, k), AxisMin(sites, k))]
  IN CHOOSE v \in {span[1], span[2], span[3]} : \A k \in 1..3 : Ge(v, span[k])

\* center is the per-axis midpoint and bounds is max(1.5 * range, 10)
FramesMidpointAndExtent(sites, center, bounds) ==
  /\ \A k \in 1..3 : center[k] = Div(Add(AxisMin(sites, k), AxisMax(sites, k)), 2 * Scale)
  /\ bounds = MathMax(Mul(1500, LargestSpan(sites)), 10 * Scale)
  /\ Ge(bounds, 10 * Scale)

\* C12: for a non-empty expanded atom list the framing of the Scene and of
\* debugInfo is center = the per-axis midpoint (min + max) / 2 of the atoms'
\* coordinates and extent = max(1.5 * range, 10), range the largest of the
\* three per-axis spans; the extent is never below 10.
Thm_C12_FramingOfAtoms ==
  /\ (scene.ran /\ scene.expandedSites # <<>>) =>
       FramesMidpointAndExtent(scene.expandedSites, scene.center, scene.bounds)
  /\ (debug.ran /\ debug.expandedSites # <<>>) =>
       FramesMidpointAndExtent(debug.expandedSites, debug.center, debug.bounds)

\* C12 witness: a render whose atoms span 4 on one axis and 12 on another,
\* framed above the floor
Wit_C12_FramingOfAtoms ==
  /\ scene.ran /\ debug.ran
  /\ scene.expandedSites # <<>> /\ debug.expandedSites # <<>>
  /\ Sub(AxisMax(scene.expandedSites, 1), AxisMin(scene.expandedSites, 1)) = 4 * Scale
  /\ LargestSpan(scene.expandedSites) = 12 * Scale
  /\ scene.bounds = 18 * Scale /\ debug.bounds = 18 * Scale

\* C13: whenever the expanded atom list is empty, for want of sites or
\* because every replica was rejected by the boundary test, the framing of
\* the Scene and the framing of debugInfo are center = (0, 0, 0) and
\* extent = 10.
Cex_C13_EmptyListFraming ==
  /\ (scene.ran /\ scene.expandedSites = <<>>) =>
       scene.center = <<0, 0, 0>> /\ scene.bounds = 10 * Scale
  /\ (debug.ran /\ debug.expandedSites = <<>>) =>
       debug.center = <<0, 0, 0>> /\ debug.bounds = 10 * Scale

\* the coefficient triples {0, 1}^3
Triples == {0, 1} \X {0, 1} \X {0, 1}

\* the vertex t[1] * rows[1] + t[2] * rows[2] + t[3] * rows[3]
Combo(t, rows) ==
  LET part(k) == IF t[k] = 1 THEN rows[k] ELSE <<0, 0, 0>>
  IN VecAdd(VecAdd(part(1), part(2)), part(3))

\* the 8 combinations are finite and pairwise different points
NonDegenerate(rows) ==
  /\ \A t \in Triples : \A k \in 1..3 : IsFinite(Combo(t, rows)[k])
  /\ \A t1, t2 \in Triples : Combo(t1, rows) = Combo(t2, rows) => t1 = t2

\* the coefficient triple of a vertex of a non-degenerate cell
TripleOf(point, rows) == CHOOSE t \in Triples : Combo(t, rows) = point

\* the vertices are the 8 combinations, each as often as it is a combination
EightVertices(vertices, rows) ==
  /\ Len(vertices) = 8
  /\ \A t \in Triples :
       Cardinality({m \in 1..Len(vertices) : vertices[m] = Combo(t, rows)})
         = Cardinality({t2 \in Triples : Combo(t2, rows) = Combo(t, rows)})
  /\ \A m \in 1..Len(vertices) : \E t \in Triples : vertices[m] = Combo(t, rows)

\* 12 lines; on a non-degenerate cell they join 12 different pairs of
\* vertices whose triples differ in exactly one coefficient, 3 of them at the
\* origin, and every vertex is an end of a line
TwelveEdges(lines, rows) ==
  /\ Len(lines) = 12
  /\ NonDegenerate(rows) =>
       /\ \A m \in 1..Len(lines) :
            /\ \E t \in Triples : Combo(t, rows) = lines[m].start
            /\ \E t \in Triples : Combo(t, rows) = lines[m].end
            /\ Cardinality({k \in 1..3 :
                 TripleOf(lines[m].start, rows)[k] # TripleOf(lines[m].end, rows)[k]}) = 1
       /\ Cardinality({{lines[m].start, lines[m].end} : m \in 1..Len(lines)}) = 12
       /\ Cardinality({m \in 1..Len(lines) :
            <<0, 0, 0>> \in {lines[m].start, lines[m].end}}) = 3
       /\ \A t \in Triples : \E m \in 1..Len(lines) :
            Combo(t, rows) \in {lines[m].start, lines[m].end}

\* C14: the unit-cell outline has exactly 8 vertices, one for each
\* coefficient triple in {0,1}^3 of the three basis vectors, and exactly 12
\* distinct edges, each joining two vertices whose triples differ in exactly
\* one coefficient, exactly 3 of them at the origin vertex: for the
\* unitCell.vertices of the memo with the wireframe the effect draws, and
\* for the lines of UnitCell over the rows of lattice.matrix.
Thm_C14_UnitCellOutline ==
  /\ processed.ran => EightVertices(processed.unitCell, processed.basis)
  /\ wireframe.drawn => TwelveEdges(wireframe.lines, processed.basis)
  /\ cellLines.drawn => TwelveEdges(cellLines.lines, latticeMatrix(structure.lattice))

\* C14 witness: both outlines drawn for a hexagonal cell
Wit_C14_UnitCellOutline ==
  /\ wireframe.drawn /\ cellLines.drawn
  /\ structure.lattice.gamma = 120
  /\ NonDegenerate(processed.basis)
  /\ NonDegenerate(latticeMatrix(structure.lattice))

\* C15: a site with fractional coordinates (0, 0, 0) under the zero
\* translation is placed at the cartesian position (0, 0, 0), whatever the
\* lattice parameters: in the memo (the atom of site n under the first
\* translation is atoms[n]) and in the Scene's expansion.
Cex_C15_OriginMapsToOrigin ==
  /\ processed.ran =>
       \A n \in 1..Len(structure.sites) :
         structure.sites[n].frac_coords = <<0, 0, 0>> =>
           processed.atoms[n].position = <<0, 0, 0>>
  /\ scene.ran =>
       \A m \in 1..Len(scene.expandedSites) :
         (/\ scene.expandedSites[m].frac_coords = <<0, 0, 0>>
          /\ scene.expandedSites[m].id[2] = 0
          /\ scene.expandedSites[m].id[3] = 0
          /\ scene.expandedSites[m].id[4] = 0) =>
           scene.expandedSites[m].cart_coords = <<0, 0, 0>>

\* a = b = c and alpha = beta = gamma = 90 degrees
IsCubic(lattice) ==
  /\ lattice.a = lattice.b /\ lattice.b = lattice.c
  /\ <<lattice.alpha, lattice.beta, lattice.gamma>> = <<90, 90, 90>>

\* the axis-aligned vectors (a, 0, 0), (0, a, 0), (0, 0, a)
AxisAligned(a) == <<<<a, 0, 0>>, <<0, a, 0>>, <<0, 0, a>>>>

SiliconStructure == [lattice |-> SiliconLattice, sites |-> <<SiliconOrigin, SiliconQuarter>>]

\* C18: for a = b = c = 5.431, alpha = beta = gamma = 90 and two Si sites at
\* fractional (0, 0, 0) and (0.25, 0.25, 0.25) the memo contains an atom for
\* each of the two sites and a Bond between them, of a length of about 2.352,
\* below the cutoff 3.0 and below 1.5 * (1.11 + 1.11) = 3.33.
Thm_C18_SiliconScenario ==
  (processed.ran /\ structure = SiliconStructure) =>
    /\ \E m \in 1..Len(processed.atoms) :
         /\ processed.atoms[m].element = "Si"
         /\ processed.atoms[m].position = <<0, 0, 0>>
    /\ \E m \in 1..Len(processed.atoms) :
         /\ processed.atoms[m].element = "Si"
         /\ processed.atoms[m].position = <<1357, 1357, 1357>>
    /\ \E k \in 1..Len(processed.bonds) :
         /\ {processed.bonds[k].start, processed.bonds[k].end}
              = {<<0, 0, 0>>, <<1357, 1357, 1357>>}
         /\ processed.bonds[k].length > 2340 /\ processed.bonds[k].length < 2360
         /\ processed.bonds[k].length < 3000
         /\ processed.bonds[k].length < 3330

\* C18 witness: the memo computed for the silicon structure, with its two
\* atoms and one bond
Wit_C18_SiliconScenario ==
  /\ processed.ran
  /\ structure = SiliconStructure
  /\ Len(processed.atoms) = 2
  /\ Len(processed.bonds) = 1

\* a step in which one of the two pipelines runs
PipelineRuns ==
  \/ ~processed.ran /\ processed'.ran
  \/ ~scene.ran /\ scene'.ran

\* every output that exists is the output of a run on the structure as it is
OutputsOfStructure ==
  /\ processed.ran => processed = processedStructure(structure)
  /\ scene.ran => /\ scene = renderScene(structure)
                  /\ debug = debugInfo(structure)

\* C19: the pipelines are pure functions of the Structure: a run leaves the
\* Structure it is given unchanged (lattice, sites, frac_coords, cart_coords),
\* and whatever happens between two runs (lookups, effects, the other
\* pipeline's run), the atoms, bonds and unit-cell vertices a run produced
\* are those a run on an equal Structure produces afterwards.
Thm_C19_PureRuns ==
  /\ []OutputsOfStructure
  /\ [][PipelineRuns => structure' = structure]_vars

\* C19 witness: both pipelines have run, after a lookup of an unknown symbol,
\* on a structure whose site has cart_coords other than the position the
\* lattice gives it
Wit_C19_PureRuns ==
  /\ processed.ran /\ scene.ran
  /\ lookup.called # "none"
  /\ Len(structure.sites) = 1
  /\ Len(processed.atoms) > 0
  /\ processed.atoms[1].position # structure.sites[1].cart_coords

\* C20: the element table is read-only after initialisation: after any
\* sequence of getElementData and getVisualizationRadius calls and pipeline
\* runs, in any interleaving, every entry of ATOMIC_DATA is the entry the
\* module initialised it with, and no entry was added or removed.
Thm_C20_TableReadOnly ==
  /\ DOMAIN table = DOMAIN ATOMIC_DATA
  /\ \A k \in DOMAIN ATOMIC_DATA : table[k] = ATOMIC_DATA[k]

\* C20 witness: both pipelines have run on a structure with a site, and the
\* last lookup asked for a symbol the table lacks and got the fallback entry
Wit_C20_TableReadOnly ==
  /\ processed.ran /\ Len(processed.atoms) > 0
  /\ scene.ran
  /\ lookup.called \in {"getElementData", "getVisualizationRadius"}
  /\ Trim(lookup.symbol) \notin DOMAIN ATOMIC_DATA
  /\ table["X"].radius > 0

\* fx * aVec + fy * bVec + fz * cVec
CartOf(frac, vecs) ==
  addScaledVector(addScaledVector(addScaledVector(Vec(0, 0, 0),
    vecs.aVec, frac[1]), vecs.bVec, frac[2]), vecs.cVec, frac[3])

\* every site of the structure is supplied with the cartesian coordinates
\* its fractional coordinates have in the lattice
SuppliedCartAgrees ==
  \A m \in 1..Len(structure.sites) :
    structure.sites[m].cart_coords
      = CartOf(structure.sites[m].frac_coords, latticeVectors(structure.lattice))

\* C21: every expanded atom of site s under translation (i, j, k) lies at
\* (fx + i) * aVec + (fy + j) * bVec + (fz + k) * cVec, in orthogonal and
\* non-orthogonal lattices alike: the atoms of the memo do, and the translated
\* fractional and cartesian coordinates a replica of the Scene carries agree
\* (stated for structures whose sites are supplied with agreeing coordinates).
Cex_C21_FracCartAgree ==
  /\ processed.ran =>
       LET T == translations(expansionSize(structure.lattice))
           S == Len(structure.sites)
       IN \A m \in 1..Len(processed.atoms) :
            LET site == structure.sites[((m - 1) % S) + 1]
                t == T[((m - 1) \div S) + 1]
            IN processed.atoms[m].position
                 = CartOf(<<Add(site.frac_coords[1], t[1] * Scale),
                            Add(site.frac_coords[2], t[2] * Scale),
                            Add(site.frac_coords[3], t[3] * Scale)>>,
                          latticeVectors(structure.lattice))
  /\ (scene.ran /\ SuppliedCartAgrees) =>
       \A m \in 1..Len(scene.expandedSites) :
         scene.expandedSites[m].cart_coords
           = CartOf(scene.expandedSites[m].frac_coords, latticeVectors(structure.lattice))

\* the (site index, translation) pairs of the structure for translations
\* over 0 .. n on each axis
SitePairs(n) == (1..Len(structure.sites)) \X ((0..n) \X (0..n) \X (0..n))

\* the number of entries of a list that equal x
Occurrences(list, x) == Cardinality({k \in 1..Len(list) : list[k] = x})

\* the Scene replica of a pair, and whether it passes the boundary test
ReplicaOf(q) == replica(structure.sites[q[1]], q[2], structure.lattice)

Passes(q) == withinBounds(ReplicaOf(q).cart_coords, structure.lattice)

\* the memo atom of a pair
AtomOf(q) == makeAtom(structure.sites[q[1]], q[2], latticeVectors(structure.lattice))

\* two pairs of equal sites under the same translation
SamePair(r, q) == r[2] = q[2] /\ structure.sites[r[1]] = structure.sites[q[1]]

\* the place of a pair in the order of the loops: translations outermost,
\* n values per axis, the sites innermost
SlotOf(q, n) ==
  (q[2][1] * n * n + q[2][2] * n + q[2][3]) * Len(structure.sites) + q[1]

\* C22: exactly one atom exists per (site, translation) pair, translations
\* over 0 .. N inclusive on each axis, that passes the boundary test: in the
\* Scene (N = 2) every passing pair has its replica in the list as often as
\* there are passing pairs of an equal site and translation, and the list has
\* no other entry; in the memo (N = expansionSize - 1, no test) every pair
\* has its atom at its own place of the list, and the list has no other
\* entry; each atom carries the species of its site.
Thm_C22_OneAtomPerPair ==
  /\ scene.ran =>
       LET passing == {q \in SitePairs(2) : Passes(q)}
       IN /\ Len(scene.expandedSites) = Cardinality(passing)
          /\ \A q \in passing :
               /\ ReplicaOf(q).species = structure.sites[q[1]].species
               /\ Occurrences(scene.expandedSites, ReplicaOf(q))
                    = Cardinality({r \in passing : SamePair(r, q)})
  /\ processed.ran =>
       LET n == expansionSize(structure.lattice)
           pairs == SitePairs(n - 1)
       IN /\ Len(processed.atoms) = Cardinality(pairs)
          /\ \A q \in pairs :
               /\ AtomOf(q).element = structure.sites[q[1]].species
               /\ processed.atoms[SlotOf(q, n)] = AtomOf(q)

\* C22 witness: two different sites expanded by both pipelines, with some
\* replicas of the Scene rejected and all eight translations of the memo kept
Wit_C22_OneAtomPerPair ==
  /\ scene.ran /\ processed.ran
  /\ Len(structure.sites) = 2
  /\ structure.sites[1] # structure.sites[2]
  /\ Len(scene.expandedSites) > 0
  /\ Len(scene.expandedSites) < 54
  /\ Len(processed.atoms) = 16

\* the species and cartesian position of every entry of an expanded list
SpeciesAndPositions(list) ==
  [m \in 1..Len(list) |->
     [species |-> list[m].species, cart_coords |-> list[m].cart_coords]]

\* C23: for every structure the debugInfo memo of CrystalStructure3D matches
\* its Scene: the same expanded atoms (species and cartesian positions, in
\* the same order), the same framing center and the same bounds.
Cex_C23_DebugInfoMatchesScene ==
  (scene.ran /\ debug.ran) =>
    /\ SpeciesAndPositions(debug.expandedSites) = SpeciesAndPositions(scene.expandedSites)
    /\ debug.center = scene.center
    /\ debug.bounds = scene.bounds

\* a call of one of the five track methods
TrackCall ==
  \/ \E view \in MaterialViews : TrackMaterialView(view)
  \/ \E query \in Queries : TrackSearch(query)
  \/ \E filter \in Filters : TrackFilter(filter)
  \/ \E property \in Properties : TrackPropertyFocus(property)
  \/ \E materialIds \in Comparisons : TrackComparison(materialIds)

\* the events after the step are the events before it and one more at the end
OneEventAppended ==
  /\ Len(session'.events) = Len(session.events) + 1
  /\ SubSeq(session'.events, 1, Len(session.events)) = session.events

\* every event carries the id of the session
EventsCarrySessionId ==
  \A i \in 1..Len(session.events) : session.events[i].data.sessionId = session.sessionId

\* C24: from a fresh session on, every call of trackMaterialView,
\* trackSearch, trackFilter, trackPropertyFocus or trackComparison appends
\* exactly one event at the end of session.events and leaves the earlier
\* events as they were, and the data.sessionId of every event is the
\* sessionId of the session.
Thm_C24_OneEventPerCall ==
  /\ []EventsCarrySessionId
  /\ [][TrackCall => OneEventAppended]_vars

\* C24 witness: three calls of three different methods have been tracked
Wit_C24_OneEventPerCall ==
  /\ Len(session.events) = 3
  /\ session.events[1].type = "search"
  /\ session.events[2].type = "material_view"
  /\ session.events[3].type = "comparison"

\* the three lists of the context
ContextLists(value) ==
  <<value.currentContext.focusAreas, value.currentContext.materialTypes,
    value.currentContext.exploredProperties>>

\* no entry occurs twice in the list
NoDuplicate(list) == \A i, j \in 1..Len(list) : list[i] = list[j] => i = j

\* the second list starts with the first
StartsWith(longer, list) ==
  Len(list) <= Len(longer) /\ SubSeq(longer, 1, Len(list)) = list

\* C25: from a fresh session on, focusAreas, materialTypes and
\* exploredProperties never contain an entry twice, and a step other than
\* resetSession only adds entries at the end of them: none is removed.
Thm_C25_ContextListsGrowWithoutDuplicates ==
  /\ [](\A k \in 1..3 : NoDuplicate(ContextLists(session)[k]))
  /\ [][(\E random \in Randoms : ResetSession(random))
          \/ \A k \in 1..3 : StartsWith(ContextLists(session')[k], ContextLists(session)[k])]_vars

\* C25 witness: two searches and a view after which the second search,
\* which names a keyword of the first again, has added one focus only
Wit_C25_ContextListsGrowWithoutDuplicates ==
  /\ Len(session.events) = 3
  /\ session.events[1].type = "search" /\ session.events[2].type = "search"
  /\ session.events[1].data.searchQuery # session.events[2].data.searchQuery
  /\ session.currentContext.focusAreas = <<"cost_conscious", "stability_focus">>
  /\ session.currentContext.materialTypes = <<"cubic">>

\* the formulas of the material_view events that have one, oldest first
ViewedFormulas ==
  LET HasFormula(e) == e.type = "material_view" /\ e.data.materialFormula # ""
      views == SelectSeq(session.events, HasFormula)
  IN [i \in 1..Len(views) |-> views[i].data.materialFormula]

\* the last n entries of a list, the last one first
LastFirst(list, n) ==
  LET k == IF n < Len(list) THEN n ELSE Len(list)
  IN [i \in 1..k |-> list[Len(list) + 1 - i]]

\* C26: for every count >= 0 and every event history,
\* getRecentMaterials(count) returns at most count formulas: those of the
\* last count material_view events that have a formula, most recent first.
Cex_C26_RecentMaterials ==
  recent.asked =>
    /\ Len(recent.result) <= recent.count
    /\ recent.result = LastFirst(ViewedFormulas, recent.count)

\* a session without events and with an empty context
IsNewSession(value) ==
  /\ value.events = <<>>
  /\ value.currentContext
       = [focusAreas |-> <<>>, materialTypes |-> <<>>, exploredProperties |-> <<>>]

\* after the step localStorage holds the text of the session in memory
StoredIsSession ==
  getItem(localStorage', STORAGE_KEY) = <<stringify(session')>>

\* the constructed tracker has the stored session, which started less than
\* two hours before, or a new session
RestoredOrNew ==
  LET stored == getItem(localStorage, STORAGE_KEY)
  IN IF stored # <<>> /\ stored[1].valid /\ session' = stored[1].text
     THEN now - session'.startTime < TwoHours
     ELSE IsNewSession(session') /\ session'.startTime = now

\* C27: after every track call the session stored in localStorage is the
\* session in memory; a newly constructed tracker has the stored session only
\* if that started less than 2 hours before, and a new session without
\* events and with an empty context otherwise; resetSession removes the
\* stored session and leaves a new session without events.
Thm_C27_Persistence ==
  /\ [][TrackCall => StoredIsSession]_vars
  /\ [][(\E random \in Randoms : Construct(random)) => RestoredOrNew]_vars
  /\ [][(\E random \in Randoms : ResetSession(random)) =>
          /\ STORAGE_KEY \notin DOMAIN localStorage'
          /\ IsNewSession(session')]_vars

\* C27 witness: two hours after a session with events started and was
\* stored, a constructed tracker has a new session instead of it
Wit_C27_Persistence ==
  /\ now = 2
  /\ STORAGE_KEY \in DOMAIN localStorage
  /\ localStorage[STORAGE_KEY].valid
  /\ localStorage[STORAGE_KEY].text.startTime = 0
  /\ localStorage[STORAGE_KEY].text.events # <<>>
  /\ session.startTime = 2
  /\ IsNewSession(session)

\* C28: whatever the interleaving of changes of materialId and responses of
\* the API, whenever loading is false and no error is shown, the material,
\* the calculations and the structure on display belong to the current
\* materialId; a material whose structure request was rejected is shown
\* without the structure of a material loaded before.
Cex_C28_DisplayedDataIsCurrent ==
  (~detail.loading /\ detail.error = NoError /\ detail.material # Null) =>
    /\ detail.material.material_id = detail.materialId
    /\ \A i \in 1..Len(detail.calculations) :
         detail.calculations[i].material_id = detail.materialId
    /\ detail.structure # Null => detail.structure.material_id = detail.materialId

\* the state shows the response to the request for its page and filters
ShowsCurrentResponse ==
  /\ browser.materials = response(request(browser)).items
  /\ browser.total = response(request(browser)).total
  /\ browser.totalPages = response(request(browser)).pages

\* C29: whatever the interleaving of page changes, filter edits, handleSearch
\* calls and responses, once no request is in flight (and none was rejected)
\* the materials, total and totalPages on display are the response to the
\* request for the current page, searchQuery, elements and crystalSystem, and
\* loading is false; and every request a handleSearch call issues is for
\* page 1.
Cex_C29_ShowsResponseToCurrentRequest ==
  /\ []((requests = <<>> /\ ~browser.rejected) =>
          (~browser.loading /\ ShowsCurrentResponse))
  /\ [][HandleSearch =>
          \A n \in (Len(requests) + 1)..Len(requests') : requests'[n].page = 1]_vars

\* the cleanup of the effect's last run takes place in the step
CleanupRuns == mount.renderer # 0 /\ mount'.renderer # mount.renderer

\* after the step nothing of the renderer is left: its canvas, its resize
\* listener, a pending frame of its animation loop
NothingLeftOf(id) ==
  /\ id \notin mount'.canvases
  /\ id \notin mount'.listeners
  /\ \A f \in mount'.frames : f.of # id
  /\ id \in mount'.disposed

\* C30: across structure changes and unmount at most one canvas is attached
\* to the container and at most one animation frame is requested at any
\* time; when the cleanup of the effect runs, the canvas of the previous
\* renderer is removed, its resize listener unregistered and its pending
\* frame cancelled; and no renderer is created while the atoms of the memo
\* are empty.
Thm_C30_SceneLifecycle ==
  /\ [](Cardinality(mount.canvases) <= 1 /\ Cardinality(mount.frames) <= 1)
  /\ [][CleanupRuns => NothingLeftOf(mount.renderer)]_vars
  /\ [][mount'.created # mount.created => Len(processed.atoms) # 0]_vars

\* C30 witness: the second renderer is attached and animating after the
\* first was cleaned up, and frames of both loops have run
Wit_C30_SceneLifecycle ==
  /\ mount.mounted
  /\ mount.created = 2 /\ mount.renderer = 2
  /\ mount.canvases = {2} /\ mount.listeners = {2}
  /\ mount.disposed = {1}
  /\ mount.requested >= 4
  /\ \E f \in mount.frames : f.of = 2

====
